---- MODULE Spec2Model ----
(***************************************************************************)
(* Model of the Excel chat add-in: the chat turn (Chat.tsx), the intent    *)
(* resolver and simulated agent (AgentService), the action executor        *)
(* (ExcelActionExecutor) and the document port (ExcelService).             *)
(*                                                                         *)
(* Text is modelled as a sequence of one-character strings so that         *)
(* substring tests and regular expressions are computed, not assumed.      *)
(***************************************************************************)
EXTENDS Integers, Sequences, FiniteSets, TLC

(***************************************************************************)
(* Bounds of the model.                                                    *)
(***************************************************************************)
\* number of phrases a typed message is made of
MaxWords == 2
\* number of actions in a batch handed to the executor
MaxBatch == 3
\* the formatter is given worksheets of up to MaxCols columns
MaxCols == 3
\* wrapText is given cell texts of up to MaxWrapWords space-separated words
MaxWrapWords == 3
\* getColumnLetter is given the column indices 0..MaxIndex
MaxIndex == 702
\* a conversation has up to MaxTurns user messages
MaxTurns == 3
\* the write methods of ExcelService are called up to MaxWrites times
MaxWrites == 2

(***************************************************************************)
(* Characters and strings.                                                 *)
(***************************************************************************)
UpperChars == <<"A","B","C","D","E","F","G","H","I","J","K","L","M",
                "N","O","P","Q","R","S","T","U","V","W","X","Y","Z">>
LowerChars == <<"a","b","c","d","e","f","g","h","i","j","k","l","m",
                "n","o","p","q","r","s","t","u","v","w","x","y","z">>
DigitChars == <<"0","1","2","3","4","5","6","7","8","9">>

UpperSet == {"A","B","C","D","E","F","G","H","I","J","K","L","M",
             "N","O","P","Q","R","S","T","U","V","W","X","Y","Z"}
LowerSet == {"a","b","c","d","e","f","g","h","i","j","k","l","m",
             "n","o","p","q","r","s","t","u","v","w","x","y","z"}
DigitSet == {"0","1","2","3","4","5","6","7","8","9"}

IsUpper(c) == c \in UpperSet
IsLetter(c) == c \in UpperSet \/ c \in LowerSet
IsDigit(c) == c \in DigitSet
IsSpace(c) == c = " "
NotComma(c) == c # ","
IsQuote(c) == c = "\""
NotQuote(c) == c # "\""

\* String.prototype.toLowerCase, one character
ToLowerChar(c) ==
  IF c \in UpperSet THEN LowerChars[CHOOSE i \in 1..26 : UpperChars[i] = c] ELSE c

\* String.prototype.toLowerCase
toLowerCase(s) == [i \in 1..Len(s) |-> ToLowerChar(s[i])]

\* String.prototype.includes
includes(s, kw) ==
  \E i \in 1..(Len(s) - Len(kw) + 1) :
    \A k \in 1..Len(kw) : s[i + k - 1] = kw[k]

\* does kw occur in s at position i, ignoring case (the /i flag on a literal)
LitAt(s, i, kw) ==
  /\ i >= 1
  /\ i + Len(kw) - 1 <= Len(s)
  /\ \A k \in 1..Len(kw) : ToLowerChar(s[i + k - 1]) = kw[k]

\* the character classes of the regular expressions, by name
InClass(c, class) ==
  CASE class = "upper" -> IsUpper(c)
    [] class = "letter" -> IsLetter(c)
    [] class = "digit" -> IsDigit(c)
    [] class = "space" -> IsSpace(c)
    [] class = "notquote" -> NotQuote(c)

\* last index of the maximal run of characters of a class that starts at i
\* (i - 1 when the run is empty): what a greedy X+ or X* consumes
RunEnd(s, i, class) ==
  CHOOSE j \in (i - 1)..Len(s) :
    /\ \A k \in i..j : InClass(s[k], class)
    /\ (j = Len(s) \/ ~InClass(s[j + 1], class))

\* String.prototype.trim
trim(s) ==
  IF \A k \in 1..Len(s) : IsSpace(s[k]) THEN <<>>
  ELSE LET a == CHOOSE i \in 1..Len(s) : ~IsSpace(s[i]) /\ \A k \in 1..(i - 1) : IsSpace(s[k])
           b == CHOOSE j \in 1..Len(s) : ~IsSpace(s[j]) /\ \A k \in (j + 1)..Len(s) : IsSpace(s[k])
       IN SubSeq(s, a, b)

\* result of String.prototype.match: null, or the match with its first group
NoMatch == [ok |-> FALSE, all |-> <<>>, cap |-> <<>>]
Match(all, cap) == [ok |-> TRUE, all |-> all, cap |-> cap]

\* the first index in 1..Len(s)+1 at which At holds, 0 when there is none:
\* a regular expression matches at the leftmost position it can
Leftmost(s, hits) ==
  IF hits = {} THEN 0
  ELSE CHOOSE i \in hits : \A k \in hits : i <= k

(***************************************************************************)
(* The regular expressions of AgentService.processMessage.                 *)
(***************************************************************************)
\* the one element of a singleton: Only({f(e) : e \in {x}}) is f(x) with x
\* evaluated once
Only(S) == CHOOSE x \in S : TRUE

\* end of a match of [L]+\d+ that starts at i, 0 when there is none
CellEndAt(s, i, L) ==
  IF i >= 1 /\ i <= Len(s) /\ InClass(s[i], L)
  THEN Only({IF e < Len(s) /\ IsDigit(s[e + 1]) THEN RunEnd(s, e + 1, "digit") ELSE 0 :
               e \in {RunEnd(s, i, L)}})
  ELSE 0

\* end of a match of [L]+\d+:[L]+\d+ that starts at i, 0 when there is none
RangeEndAt(s, i, L) ==
  Only({IF e = 0 \/ e + 1 > Len(s) THEN 0
        ELSE IF s[e + 1] # ":" THEN 0
        ELSE CellEndAt(s, e + 2, L) : e \in {CellEndAt(s, i, L)}})

kwValue == <<"v","a","l","u","e">>
kwValues == <<"v","a","l","u","e","s">>
kwRange == <<"r","a","n","g","e">>
kwFromSp == <<"f","r","o","m"," ">>
kwToSp == <<"t","o"," ">>
kwRowsAs == <<"r","o","w","s"," ","a","s"," ">>
kwColumnsAs == <<"c","o","l","u","m","n","s"," ","a","s"," ">>
kwSumThe == <<"s","u","m"," ","t","h","e"," ">>
kwAnd == <<"a","n","d">>
kwWith == <<"w","i","t","h">>
kwTo == <<"t","o">>

\* message.match(/[A-Z]+\d+/)
MatchCell(s) ==
  LET At(i) == CellEndAt(s, i, "upper") # 0
      p == Leftmost(s, {i \in 1..Len(s) : At(i)})
  IN IF p = 0 THEN NoMatch
     ELSE Match(SubSeq(s, p, CellEndAt(s, p, "upper")), <<>>)

\* a value pattern with optional white space, /value\s*(.+)$/i
MatchValueLoose(s) ==
  LET WsEnd(i) == RunEnd(s, i + 5, "space")
      At(i) == LitAt(s, i, kwValue) /\ i + 5 <= Len(s)
      p == Leftmost(s, {i \in 1..Len(s) : At(i)})
  IN IF p = 0 THEN NoMatch
     ELSE IF WsEnd(p) < Len(s)
          THEN Match(SubSeq(s, p, Len(s)), SubSeq(s, WsEnd(p) + 1, Len(s)))
          ELSE Match(SubSeq(s, p, Len(s)), SubSeq(s, Len(s), Len(s)))

\* message.match(/value\s+(.+)$/i): the group is the rest of the string
MatchValue(s) ==
  LET WsEnd(i) == RunEnd(s, i + 5, "space")
      At(i) == /\ LitAt(s, i, kwValue)
               /\ WsEnd(i) >= i + 5
               /\ (WsEnd(i) < Len(s) \/ WsEnd(i) >= i + 6)
      p == Leftmost(s, {i \in 1..Len(s) : At(i)})
  IN IF p = 0 THEN NoMatch
     ELSE IF WsEnd(p) < Len(s)
          THEN Match(SubSeq(s, p, Len(s)), SubSeq(s, WsEnd(p) + 1, Len(s)))
          ELSE Match(SubSeq(s, p, Len(s)), SubSeq(s, Len(s), Len(s)))

\* message.match(/range\s+([A-Z]+\d+:[A-Z]+\d+)/i)
MatchRange(s) ==
  LET WsEnd(i) == RunEnd(s, i + 5, "space")
      At(i) == /\ LitAt(s, i, kwRange)
               /\ WsEnd(i) >= i + 5
               /\ RangeEndAt(s, WsEnd(i) + 1, "letter") # 0
      p == Leftmost(s, {i \in 1..Len(s) : At(i)})
  IN IF p = 0 THEN NoMatch
     ELSE LET e == RangeEndAt(s, WsEnd(p) + 1, "letter")
          IN Match(SubSeq(s, p, e), SubSeq(s, WsEnd(p) + 1, e))

\* message.match(/values\s+\[(.*)\]/i): the greedy group runs to the last "]"
MatchValues(s) ==
  LET WsEnd(i) == RunEnd(s, i + 6, "space")
      At(i) == /\ LitAt(s, i, kwValues)
               /\ WsEnd(i) >= i + 6
               /\ WsEnd(i) + 1 <= Len(s)
               /\ s[WsEnd(i) + 1] = "["
               /\ \E j \in (WsEnd(i) + 2)..Len(s) : s[j] = "]"
      p == Leftmost(s, {i \in 1..Len(s) : At(i)})
  IN IF p = 0 THEN NoMatch
     ELSE LET close == CHOOSE j \in (WsEnd(p) + 2)..Len(s) :
                         s[j] = "]" /\ \A k \in (j + 1)..Len(s) : s[k] # "]"
          IN Match(SubSeq(s, p, close), SubSeq(s, WsEnd(p) + 2, close - 1))

\* lowerMessage.match(/from ([A-Za-z]+\d+:[A-Za-z]+\d+)/i)
MatchFrom(s) ==
  LET At(i) == LitAt(s, i, kwFromSp) /\ RangeEndAt(s, i + 5, "letter") # 0
      p == Leftmost(s, {i \in 1..Len(s) : At(i)})
  IN IF p = 0 THEN NoMatch
     ELSE Match(SubSeq(s, p, RangeEndAt(s, p + 5, "letter")),
                SubSeq(s, p + 5, RangeEndAt(s, p + 5, "letter")))

\* lowerMessage.match(/to ([A-Za-z]+\d+)/i)
MatchTo(s) ==
  LET At(i) == LitAt(s, i, kwToSp) /\ CellEndAt(s, i + 3, "letter") # 0
      p == Leftmost(s, {i \in 1..Len(s) : At(i)})
  IN IF p = 0 THEN NoMatch
     ELSE Match(SubSeq(s, p, CellEndAt(s, p + 3, "letter")),
                SubSeq(s, p + 3, CellEndAt(s, p + 3, "letter")))

\* (?:\s+t1|\s+t2|...|$) at position q
TermAt(s, q, terms) ==
  \/ q = Len(s) + 1
  \/ \E t \in terms : RunEnd(s, q, "space") >= q /\ LitAt(s, RunEnd(s, q, "space") + 1, t)

\* lowerMessage.match(/<prefix>([^,]+?)(?:\s+t1|...|$)/i): the lazy group is
\* the shortest comma-free text after the prefix that a terminator follows
MatchLazy(s, prefix, terms) ==
  LET Ok(p, n) == /\ p + n - 1 <= Len(s)
                  /\ \A k \in p..(p + n - 1) : NotComma(s[k])
                  /\ TermAt(s, p + n, terms)
      At(i) == LitAt(s, i, prefix) /\ \E n \in 1..Len(s) : Ok(i + Len(prefix), n)
      p == Leftmost(s, {i \in 1..Len(s) : At(i)})
  IN IF p = 0 THEN NoMatch
     ELSE LET q == p + Len(prefix)
              n == CHOOSE m \in 1..Len(s) : Ok(q, m) /\ \A k \in 1..(m - 1) : ~Ok(q, k)
          IN Match(SubSeq(s, p, q + n - 1), SubSeq(s, q, q + n - 1))

\* /rows as ([^,]+?)(?:\s+and|\s+with|\s+to|$)/i
MatchRows(s) == MatchLazy(s, kwRowsAs, {kwAnd, kwWith, kwTo})
\* /columns as ([^,]+?)(?:\s+and|\s+with|\s+to|$)/i
MatchColumns(s) == MatchLazy(s, kwColumnsAs, {kwAnd, kwWith, kwTo})
\* /sum the ([^,]+?)(?:\s+values|\s+and|\s+with|\s+to|$)/i
MatchSum(s) == MatchLazy(s, kwSumThe, {kwValues, kwAnd, kwWith, kwTo})

(***************************************************************************)
(* What the user can type: a message is up to MaxWords phrases joined by   *)
(* single spaces.  The phrases are the pieces of the commands the help     *)
(* text of processMessage advertises, and of the pivot-table commands.     *)
(***************************************************************************)
Phrases ==
  {
   "Write value 42 to cell A1", "Write", "value 42", "cell A1",
   "Write range A1:B2", "values [[1,2],[3,4]]", "values [[1,2],[3,4]",
   "pivot table", "Read", "show", "selection", "hello there", "from A1:D10",
   "to F1", "rows as Product", "columns as Region", "sum the Sales",
   "create a pivot table from A1:D10 to F1 with rows: Product, columns: Region, values: Sales",
   "Write range A1:B3 values [[1,2],[3,4],[5,6]]",
   "values [['value 1',2],[3,4]]", "make a chart" }

\* the characters of a phrase
Spell(w) ==
  CASE w = "Write value 42 to cell A1" -> <<"W","r","i","t","e"," ","v","a","l","u","e"," ","4","2"," ","t","o"," ","c","e","l","l"," ","A","1">>
    [] w = "Write" -> <<"W","r","i","t","e">>
    [] w = "value 42" -> <<"v","a","l","u","e"," ","4","2">>
    [] w = "cell A1" -> <<"c","e","l","l"," ","A","1">>
    [] w = "Write range A1:B2" -> <<"W","r","i","t","e"," ","r","a","n","g","e"," ","A","1",":","B","2">>
    [] w = "values [[1,2],[3,4]]" -> <<"v","a","l","u","e","s"," ","[","[","1",",","2","]",",","[","3",",","4","]","]">>
    [] w = "values [[1,2],[3,4]" -> <<"v","a","l","u","e","s"," ","[","[","1",",","2","]",",","[","3",",","4","]">>
    [] w = "pivot table" -> <<"p","i","v","o","t"," ","t","a","b","l","e">>
    [] w = "Read" -> <<"R","e","a","d">>
    [] w = "show" -> <<"s","h","o","w">>
    [] w = "selection" -> <<"s","e","l","e","c","t","i","o","n">>
    [] w = "hello there" -> <<"h","e","l","l","o"," ","t","h","e","r","e">>
    [] w = "from A1:D10" -> <<"f","r","o","m"," ","A","1",":","D","1","0">>
    [] w = "to F1" -> <<"t","o"," ","F","1">>
    [] w = "rows as Product" -> <<"r","o","w","s"," ","a","s"," ","P","r","o","d","u","c","t">>
    [] w = "columns as Region" -> <<"c","o","l","u","m","n","s"," ","a","s"," ","R","e","g","i","o","n">>
    [] w = "sum the Sales" -> <<"s","u","m"," ","t","h","e"," ","S","a","l","e","s">>
    [] w = "create a pivot table from A1:D10 to F1 with rows: Product, columns: Region, values: Sales" ->
         <<"c","r","e","a","t","e"," ","a"," ","p","i","v","o","t"," ","t","a","b","l","e"," ","f","r","o","m"," ","A","1",":","D","1","0"," ","t","o"," ","F","1"," ","w","i","t","h"," ","r","o","w","s",":"," ","P","r","o","d","u","c","t",","," ","c","o","l","u","m","n","s",":"," ","R","e","g","i","o","n",","," ","v","a","l","u","e","s",":"," ","S","a","l","e","s">>
    [] w = "values [['value 1',2],[3,4]]" -> <<"v","a","l","u","e","s"," ","[","[","'","v","a","l","u","e"," ","1","'",",","2","]",",","[","3",",","4","]","]">>
    [] w = "make a chart" -> <<"m","a","k","e"," ","a"," ","c","h","a","r","t">>
    [] w = "Write range A1:B3 values [[1,2],[3,4],[5,6]]" ->
         <<"W","r","i","t","e"," ","r","a","n","g","e"," ","A","1",":","B","3"," ","v","a","l","u","e","s"," ","[","[","1",",","2","]",",","[","3",",","4","]",",","[","5",",","6","]","]">>

RECURSIVE Join(_)
\* the text of a sequence of phrases
Join(ws) ==
  IF ws = <<>> THEN <<>>
  ELSE IF Len(ws) = 1 THEN Spell(ws[1])
  ELSE Spell(ws[1]) \o <<" ">> \o Join(Tail(ws))

\* every message the user can type
Messages == UNION {[1..n -> Phrases] : n \in 0..MaxWords}

(***************************************************************************)
(* AgentService.parseValuesString: quotes are normalised and the text,     *)
(* wrapped in brackets, goes through JSON.parse.  Values are tagged:       *)
(* <<"num", n>>, <<"str", chars>>, <<"arr", elements>>.                    *)
(***************************************************************************)
ParseFail == [ok |-> FALSE, val |-> <<"none">>, next |-> 0]
ParseOk(v, n) == [ok |-> TRUE, val |-> v, next |-> n]

DigitVal(c) == (CHOOSE i \in 1..10 : DigitChars[i] = c) - 1

RECURSIVE NumVal(_)
\* the number a run of digits denotes
NumVal(ds) ==
  IF ds = <<>> THEN 0
  ELSE 10 * NumVal(SubSeq(ds, 1, Len(ds) - 1)) + DigitVal(ds[Len(ds)])

RECURSIVE ParseValue(_, _), ParseElems(_, _, _, _)
\* JSON.parse, one value starting at i: arrays, unsigned integers and
\* strings (the JSON the phrases can spell); anything else is a SyntaxError
ParseValue(s, i) ==
  Only({IF j > Len(s) THEN ParseFail
        ELSE IF s[j] = "[" THEN ParseElems(s, j + 1, <<>>, TRUE)
        ELSE IF IsDigit(s[j])
             THEN Only({IF s[j] = "0" /\ e > j THEN ParseFail
                        ELSE ParseOk(<<"num", NumVal(SubSeq(s, j, e))>>, e + 1) :
                          e \in {RunEnd(s, j, "digit")}})
        ELSE IF IsQuote(s[j])
             THEN Only({IF e = Len(s) THEN ParseFail
                        ELSE ParseOk(<<"str", SubSeq(s, j + 1, e)>>, e + 2) :
                          e \in {RunEnd(s, j + 1, "notquote")}})
        ELSE ParseFail : j \in {RunEnd(s, i, "space") + 1}})

\* the elements of an array after "[" or after ","
ParseElems(s, i, acc, first) ==
  Only({IF j > Len(s) THEN ParseFail
        ELSE IF s[j] = "]"
             THEN IF first THEN ParseOk(<<"arr", acc>>, j + 1) ELSE ParseFail
        ELSE Only({IF ~v.ok THEN ParseFail
                   ELSE Only({IF k > Len(s) THEN ParseFail
                              ELSE IF s[k] = ","
                                   THEN ParseElems(s, k + 1, Append(acc, v.val), FALSE)
                              ELSE IF s[k] = "]"
                                   THEN ParseOk(<<"arr", Append(acc, v.val)>>, k + 1)
                              ELSE ParseFail : k \in {RunEnd(s, v.next, "space") + 1}}) :
                     v \in {ParseValue(s, j)}}) : j \in {RunEnd(s, i, "space") + 1}})

\* JSON.parse of a whole text
JSONparse(s) ==
  Only({IF r.ok /\ RunEnd(s, r.next, "space") = Len(s) THEN r ELSE ParseFail :
          r \in {ParseValue(s, 1)}})

\* valuesString.replace(/'/g, '"')
NormalizeQuotes(s) == [i \in 1..Len(s) |-> IF s[i] = "'" THEN "\"" ELSE s[i]]

\* a parseValuesString that swallows the SyntaxError and yields no rows
parseValuesStringLenient(valuesString) ==
  Only({Only({IF r.ok THEN [ok |-> TRUE, val |-> r.val, error |-> <<>>]
              ELSE [ok |-> TRUE, val |-> <<"arr", <<>>>>, error |-> <<>>] :
                r \in {JSONparse(json)}}) :
          json \in {<<"[">> \o NormalizeQuotes(valuesString) \o <<"]">>}})

\* parseValuesString: ok with the parsed array, or the Error it throws
parseValuesString(valuesString) ==
  Only({Only({IF r.ok THEN [ok |-> TRUE, val |-> r.val, error |-> <<>>]
              ELSE [ok |-> FALSE, val |-> <<"none">>,
                    error |-> <<"Invalid values format: ", "SyntaxError">>] :
                r \in {JSONparse(json)}}) :
          json \in {<<"[">> \o NormalizeQuotes(valuesString) \o <<"]">>}})

(***************************************************************************)
(* Addresses and the document.  The document is the live worksheet behind  *)
(* Excel.run: a map from <<row, column>> to the value written there.       *)
(***************************************************************************)
LetterIndex(c) == CHOOSE i \in 1..26 : LowerChars[i] = ToLowerChar(c)

RECURSIVE ColNumber(_)
\* the column a run of letters names: A = 1, Z = 26, AA = 27
ColNumber(ls) ==
  IF ls = <<>> THEN 0
  ELSE 26 * ColNumber(SubSeq(ls, 1, Len(ls) - 1)) + LetterIndex(ls[Len(ls)])

\* sheet.getRange(address) for a single cell address
CellOf(address) ==
  LET e == RunEnd(address, 1, "letter")
  IN <<NumVal(SubSeq(address, e + 1, Len(address))), ColNumber(SubSeq(address, 1, e))>>

\* address.split(':')[0]
StartCell(address) ==
  LET At(i) == address[i] = ":"
      c == Leftmost(address, {i \in 1..Len(address) : At(i)})
  IN IF c = 0 THEN address ELSE SubSeq(address, 1, c - 1)

EmptyGrid == [c \in {} |-> <<"none">>]

\* a cell write that adds a number to the number the cell holds
GridWriteCellAdding(g, address, value) ==
  [c \in DOMAIN g \cup {CellOf(address)} |->
     IF c # CellOf(address) THEN g[c]
     ELSE IF c \in DOMAIN g /\ g[c][1] = "num" /\ value[1] = "num"
          THEN <<"num", g[c][2] + value[2]>>
          ELSE value]

\* range.values = [[value]]
GridWriteCell(g, address, value) ==
  [c \in DOMAIN g \cup {CellOf(address)} |->
     IF c = CellOf(address) THEN value ELSE g[c]]

\* range.values = values: row r, column k of the matrix lands r - 1 rows and
\* k - 1 columns from the start cell
GridWriteRange(g, address, values) ==
  LET start == CellOf(StartCell(address))
      rows == values[2]
      Target == {<<start[1] + r - 1, start[2] + k - 1>> :
                   r \in 1..Len(rows), k \in 1..Len(rows[1][2])}
  IN [c \in DOMAIN g \cup Target |->
        IF c \in Target
        THEN rows[c[1] - start[1] + 1][2][c[2] - start[2] + 1]
        ELSE g[c]]

adrA1 == <<"A","1">>
adrB2 == <<"B","2">>
adrA1B1 == <<"A","1",":","B","1">>
adrA1B2 == <<"A","1",":","B","2">>
\* [[1,2],[3]]: a matrix whose rows differ in length
jaggedValues ==
  <<"arr", <<<<"arr", <<<<"num", 1>>, <<"num", 2>>>>>>, <<"arr", <<<<"num", 3>>>>>>>>>>

\* the documents a run can start from
InitialGrids == {EmptyGrid, GridWriteCell(EmptyGrid, adrA1, <<"str", <<"o","l","d">>>>)}

(***************************************************************************)
(* ExcelActionProtocol: the closed set of action kinds.                    *)
(***************************************************************************)
ExcelActionType ==
  {"WRITE_CELL", "READ_CELL", "FORMAT_CELL", "WRITE_RANGE", "READ_RANGE",
   "FORMAT_RANGE", "CREATE_WORKSHEET", "DELETE_WORKSHEET", "RENAME_WORKSHEET",
   "INSERT_FORMULA", "CREATE_CHART", "CREATE_PIVOT_TABLE", "APPLY_FILTER",
   "APPLY_CONDITIONAL_FORMATTING", "APPLY_DATA_VALIDATION", "CUSTOM"}

\* AIAgentResponse.metadata is optional; no code path of the services sets it
NoMetadata == [present |-> FALSE, success |-> TRUE, errors |-> <<>>]

\* a payload the executor never looks into
NoData == [note |-> "opaque"]
Action(type, data) == [type |-> type, data |-> data]

\* the actions a caller of processAIAgentResponse can put in a batch: cell
\* writes, a range write, kinds the executor only logs, and a kind that is
\* not in ExcelActionType (the response is parsed JSON, so any string can
\* arrive as a type)
ActionInputs ==
  {Action("WRITE_CELL", [address |-> a, value |-> <<"num", v>>]) :
     a \in {adrA1, adrB2}, v \in {1, 2}}
  \cup {Action("WRITE_RANGE",
               [address |-> adrA1B1,
                values |-> <<"arr", <<<<"arr", <<<<"num", 7>>, <<"num", 8>>>>>>>>>>]),
        Action("WRITE_RANGE", [address |-> adrA1B2, values |-> jaggedValues])}
  \cup {Action(t, NoData) : t \in {"READ_CELL", "CREATE_PIVOT_TABLE", "MERGE_CELLS"}}

Batches == UNION {[1..n -> ActionInputs] : n \in 0..MaxBatch}

(***************************************************************************)
(* AgentService.processMessage: classification and extraction.             *)
(***************************************************************************)
kwPivotTable == <<"p","i","v","o","t"," ","t","a","b","l","e">>
kwPivot == <<"p","i","v","o","t">>
kwRead == <<"r","e","a","d">>
kwShow == <<"s","h","o","w">>
kwWhat == <<"w","h","a","t">>
kwWrite == <<"w","r","i","t","e">>
kwPut == <<"p","u","t">>
kwSet == <<"s","e","t">>
kwFill == <<"f","i","l","l">>
kwSelected == <<"s","e","l","e","c","t","e","d">>
kwSelection == <<"s","e","l","e","c","t","i","o","n">>
kwCreate == <<"c","r","e","a","t","e">>
kwTable == <<"t","a","b","l","e">>

dfltSource == <<"A","1",":","D","1","0">>
dfltDestination == <<"F","1">>
dfltRow == <<"C","a","t","e","g","o","r","y">>
dfltColumn == <<"R","e","g","i","o","n">>
dfltValue == <<"S","a","l","e","s">>

\* /create.*pivot.*table/i.test(message)
pivotTableRegex(s) ==
  \E i \in 1..Len(s) : \E j \in (i + 6)..Len(s) : \E k \in (j + 5)..Len(s) :
    LitAt(s, i, kwCreate) /\ LitAt(s, j, kwPivot) /\ LitAt(s, k, kwTable)

\* the triggers of the rules of processMessage, on lowerMessage
PivotTrigger(lower) == includes(lower, kwPivotTable) \/ includes(lower, kwPivot)
ReadTrigger(lower) ==
  includes(lower, kwRead) \/ includes(lower, kwShow) \/ includes(lower, kwWhat)
WriteTrigger(lower) ==
  includes(lower, kwWrite) \/ includes(lower, kwPut) \/ includes(lower, kwSet)
RangeTrigger(lower) ==
  includes(lower, kwRange) /\ (includes(lower, kwWrite) \/ includes(lower, kwFill))
SelectionTrigger(lower) == includes(lower, kwSelected) \/ includes(lower, kwSelection)

\* processMessage with the read rule tested ahead of the pivot rule
ClassifyReadFirst(message) ==
  LET lower == toLowerCase(message)
  IN IF ReadTrigger(lower) THEN "read"
     ELSE IF PivotTrigger(lower) THEN "pivot"
     ELSE IF WriteTrigger(lower) /\ MatchCell(message).ok /\ MatchValue(message).ok
          THEN "write_cell"
     ELSE IF RangeTrigger(lower) /\ MatchRange(message).ok /\ MatchValues(message).ok
          THEN "write_range"
     ELSE IF SelectionTrigger(lower) THEN "selection"
     ELSE IF pivotTableRegex(message) THEN "pivot_manual"
     ELSE "default"

\* processMessage with a cell-write rule that is content with the address
ClassifyCellOnly(message) ==
  LET lower == toLowerCase(message)
  IN IF PivotTrigger(lower) THEN "pivot"
     ELSE IF ReadTrigger(lower) THEN "read"
     ELSE IF WriteTrigger(lower) /\ MatchCell(message).ok
          THEN "write_cell"
     ELSE IF RangeTrigger(lower) /\ MatchRange(message).ok /\ MatchValues(message).ok
          THEN "write_range"
     ELSE IF SelectionTrigger(lower) THEN "selection"
     ELSE IF pivotTableRegex(message) THEN "pivot_manual"
     ELSE "default"

\* the branch of processMessage that handles a message: the if-statements
\* in the order the method has them
Classify(message) ==
  LET lower == toLowerCase(message)
  IN IF PivotTrigger(lower) THEN "pivot"
     ELSE IF ReadTrigger(lower) THEN "read"
     ELSE IF WriteTrigger(lower) /\ MatchCell(message).ok /\ MatchValue(message).ok
          THEN "write_cell"
     ELSE IF RangeTrigger(lower) /\ MatchRange(message).ok /\ MatchValues(message).ok
          THEN "write_range"
     ELSE IF SelectionTrigger(lower) THEN "selection"
     ELSE IF pivotTableRegex(message) THEN "pivot_manual"
     ELSE "default"

\* a response text: a template of the source and the values interpolated
Msg(text, args) == [text |-> text, args |-> args]
NoAction == [type |-> "none", data |-> NoData]
NoBody == [kind |-> "none"]
AgentResponse(message, action, body) ==
  [message |-> message, action |-> action, body |-> body]

\* the pivot branch: every field is extracted on its own from lowerMessage
\* a pivot extraction whose row and column fields are taken or defaulted
\* together with the source range
PivotDataCoupled(message) ==
  LET lower == toLowerCase(message)
      sourceRangeMatch == MatchFrom(lower)
      destRangeMatch == MatchTo(lower)
      rowMatch == MatchRows(lower)
      columnMatch == MatchColumns(lower)
      valueMatch == MatchSum(lower)
  IN [sourceRange |-> IF sourceRangeMatch.ok THEN sourceRangeMatch.cap ELSE dfltSource,
      destinationRange |-> IF destRangeMatch.ok THEN destRangeMatch.cap ELSE dfltDestination,
      rows |-> IF rowMatch.ok /\ sourceRangeMatch.ok
               THEN <<trim(rowMatch.cap)>>
               ELSE IF sourceRangeMatch.ok THEN <<>> ELSE <<dfltRow>>,
      columns |-> IF columnMatch.ok /\ sourceRangeMatch.ok
                  THEN <<trim(columnMatch.cap)>>
                  ELSE IF sourceRangeMatch.ok THEN <<>> ELSE <<dfltColumn>>,
      values |-> IF valueMatch.ok
                 THEN <<[field |-> trim(valueMatch.cap), function |-> "sum"]>>
                 ELSE <<[field |-> dfltValue, function |-> "sum"]>>]

PivotData(message) ==
  LET lower == toLowerCase(message)
      sourceRangeMatch == MatchFrom(lower)
      destRangeMatch == MatchTo(lower)
      rowMatch == MatchRows(lower)
      columnMatch == MatchColumns(lower)
      valueMatch == MatchSum(lower)
  IN [sourceRange |-> IF sourceRangeMatch.ok THEN sourceRangeMatch.cap ELSE dfltSource,
      destinationRange |-> IF destRangeMatch.ok THEN destRangeMatch.cap ELSE dfltDestination,
      rows |-> IF rowMatch.ok THEN <<trim(rowMatch.cap)>> ELSE <<dfltRow>>,
      columns |-> IF columnMatch.ok THEN <<trim(columnMatch.cap)>> ELSE <<dfltColumn>>,
      values |-> IF valueMatch.ok
                 THEN <<[field |-> trim(valueMatch.cap), function |-> "sum"]>>
                 ELSE <<[field |-> dfltValue, function |-> "sum"]>>]

PivotResponse(message) ==
  AgentResponse(
    Msg("I can help you create a pivot table. Here are the step-by-step instructions:", <<>>),
    Action("CREATE_PIVOT_TABLE", PivotData(message)),
    [kind |-> "pivot configuration"])

\* the second pivot block, after the selection rule
ManualPivotResponse(message) ==
  AgentResponse(
    Msg("I can help you create a pivot table. Here are the step-by-step instructions:", <<>>),
    Action("CREATE_PIVOT_TABLE", [note |-> "manual instructions"]),
    [kind |-> "manual pivot instructions"])

DefaultResponse ==
  AgentResponse(Msg("I can help you read and write to Excel. Try commands like: ...", <<>>),
                NoAction, NoBody)

\* the address and value the cell-write rule extracts
CellWriteArgs(message) ==
  [address |-> MatchCell(message).all, value |-> <<"str", trim(MatchValue(message).cap)>>]

\* the address and parse result the range-write rule extracts
RangeWriteArgs(message) ==
  [address |-> MatchRange(message).cap,
   parsed |-> parseValuesString(MatchValues(message).cap)]

(***************************************************************************)
(* AgentService.sendMessageToAIAgent, as Chat.tsx reaches it: the chat     *)
(* skips the call for every text that contains read, show or what, so the  *)
(* worksheet-reading branch of the method is not entered from the chat.    *)
(***************************************************************************)
kwChart == <<"c","h","a","r","t">>
kwFormula == <<"f","o","r","m","u","l","a">>

AIAgentResponse(message, actions) ==
  [message |-> message, actions |-> actions, metadata |-> NoMetadata]

sendMessageToAIAgent(message) ==
  LET lower == toLowerCase(message)
  IN IF includes(lower, kwPivotTable)
     THEN AIAgentResponse(
            Msg("I'll create a pivot table for you based on the data in the current worksheet.", <<>>),
            <<Action("CREATE_PIVOT_TABLE", [note |-> "sample pivot table"])>>)
     ELSE IF includes(lower, kwChart)
     THEN AIAgentResponse(
            Msg("I'll create a chart for you based on the data in the current worksheet.", <<>>),
            <<Action("CREATE_CHART", [note |-> "sample chart"])>>)
     ELSE IF includes(lower, kwFormula)
     THEN AIAgentResponse(
            Msg("I'll insert a formula for you in the current worksheet.", <<>>),
            <<Action("INSERT_FORMULA", [note |-> "sample formula"])>>)
     ELSE AIAgentResponse(
            Msg("I understand you want to work with Excel. I'll help you with that.", <<>>),
            <<>>)

\* Chat.tsx: the test that skips the remote step
\* an isReadOperation that knows the word read only
isReadOperationOnlyRead(inputText) == includes(toLowerCase(inputText), kwRead)

isReadOperation(inputText) == ReadTrigger(toLowerCase(inputText))

(***************************************************************************)
(* AgentService.getColumnLetter, wrapText and formatWorksheetOutput.  A    *)
(* worksheet is the any[][] the method is given: a sequence of rows of     *)
(* cells; a cell is <<"null">>, <<"undef">>, <<"str", text>> or            *)
(* <<"num", n>>.                                                           *)
(***************************************************************************)
\* the template literal `${n}` of a non-negative integer
RECURSIVE ToStr(_)
ToStr(n) ==
  IF n < 10 THEN <<DigitChars[n + 1]>>
  ELSE ToStr(n \div 10) \o <<DigitChars[(n % 10) + 1]>>

\* a pass that puts the new letter after the ones it has
LetterStepAppending(temp, letter) ==
  [temp |-> (temp \div 26) - 1,
   letter |-> letter \o <<UpperChars[(temp % 26) + 1]>>]

\* one pass of the while loop of getColumnLetter
LetterStep(temp, letter) ==
  [temp |-> (temp \div 26) - 1,
   letter |-> <<UpperChars[(temp % 26) + 1]>> \o letter]

RECURSIVE LetterLoop(_, _)
\* while (temp >= 0) { ... }
LetterLoop(temp, letter) ==
  IF temp >= 0
  THEN LetterLoop(LetterStep(temp, letter).temp, LetterStep(temp, letter).letter)
  ELSE letter

getColumnLetter(index) == LetterLoop(index, <<>>)

RECURSIVE split(_)
\* text.split(' ')
split(text) ==
  IF \A i \in 1..Len(text) : text[i] # " " THEN <<text>>
  ELSE LET p == CHOOSE i \in 1..Len(text) :
                  text[i] = " " /\ \A k \in 1..(i - 1) : text[k] # " "
       IN <<SubSeq(text, 1, p - 1)>> \o split(SubSeq(text, p + 1, Len(text)))

RECURSIVE WrapLoopDropping(_, _, _, _)
\* a loop that starts the new line empty: the word that did not fit is lost
WrapLoopDropping(words, lines, currentLine, width) ==
  IF words = <<>> THEN [lines |-> lines, currentLine |-> currentLine]
  ELSE LET word == Head(words)
       IN IF Len(currentLine) + Len(word) + 1 > width
          THEN WrapLoopDropping(Tail(words),
                        IF Len(currentLine) > 0 THEN Append(lines, currentLine) ELSE lines,
                        <<>>, width)
          ELSE WrapLoopDropping(Tail(words), lines,
                        IF Len(currentLine) = 0 THEN word
                        ELSE currentLine \o <<" ">> \o word,
                        width)

RECURSIVE WrapLoop(_, _, _, _)
\* for (const word of words) { ... } of wrapText
WrapLoop(words, lines, currentLine, width) ==
  IF words = <<>> THEN [lines |-> lines, currentLine |-> currentLine]
  ELSE LET word == Head(words)
       IN IF Len(currentLine) + Len(word) + 1 > width
          THEN WrapLoop(Tail(words),
                        IF Len(currentLine) > 0 THEN Append(lines, currentLine) ELSE lines,
                        word, width)
          ELSE WrapLoop(Tail(words), lines,
                        IF Len(currentLine) = 0 THEN word
                        ELSE currentLine \o <<" ">> \o word,
                        width)

wrapText(text, width) ==
  IF Len(text) <= width THEN <<text>>
  ELSE LET r == WrapLoop(split(text), <<>>, <<>>, width)
       IN IF Len(r.currentLine) > 0 THEN Append(r.lines, r.currentLine) ELSE r.lines

worksheetIsEmpty ==
  <<"T","h","e"," ","w","o","r","k","s","h","e","e","t"," ","i","s"," ","e","m","p","t","y",".">>
maxLineLength == 40
newline == <<"\n">>

\* cell !== null && cell !== undefined && cell !== ""
NonEmptyCell(cell) ==
  /\ cell[1] \notin {"null", "undef"}
  /\ ~(cell[1] = "str" /\ cell[2] = <<>>)

\* `${cellValue}`
CellText(cell) == IF cell[1] = "num" THEN ToStr(cell[2]) ELSE cell[2]

\* `${colLetter}${rowNumber}=${cellValue}`
cellContent(cell, rowIndex, colIndex) ==
  getColumnLetter(colIndex) \o ToStr(rowIndex + 1) \o <<"=">> \o CellText(cell)

RECURSIVE PlaceWrapped(_, _, _)
\* wrappedLines.forEach((line, i) => ...): st is [output, currentLine, isFirstCell]
PlaceWrapped(st, wrappedLines, i) ==
  IF i > Len(wrappedLines) THEN st
  ELSE PlaceWrapped(
         IF i = 1 THEN [st EXCEPT !.currentLine = wrappedLines[i]]
         ELSE [st EXCEPT !.output = st.output \o st.currentLine \o newline,
                         !.currentLine = wrappedLines[i]],
         wrappedLines, i + 1)

\* the body of row.forEach((cell, colIndex) => ...) for one cell
CellStep(st, cell, rowIndex, colIndex) ==
  IF ~NonEmptyCell(cell) THEN st
  ELSE LET content == cellContent(cell, rowIndex, colIndex)
           sep == IF st.isFirstCell THEN 0 ELSE 2
       IN IF Len(st.currentLine) + Len(content) + sep > maxLineLength
          THEN LET flushed ==
                     IF Len(st.currentLine) > 0
                     THEN [output |-> st.output \o st.currentLine \o newline,
                           currentLine |-> <<>>, isFirstCell |-> TRUE]
                     ELSE st
               IN IF Len(content) > maxLineLength
                  THEN PlaceWrapped(flushed, wrapText(content, maxLineLength), 1)
                  ELSE [flushed EXCEPT !.currentLine = content]
          ELSE IF st.isFirstCell
               THEN [st EXCEPT !.currentLine = content, !.isFirstCell = FALSE]
               ELSE [st EXCEPT !.currentLine = st.currentLine \o <<",", " ">> \o content]

RECURSIVE CellLoop(_, _, _, _)
CellLoop(st, row, rowIndex, colIndex) ==
  IF colIndex >= Len(row) THEN st
  ELSE CellLoop(CellStep(st, row[colIndex + 1], rowIndex, colIndex), row, rowIndex,
                colIndex + 1)

\* a test that takes every cell but null for content
hasNonEmptyCellsNullOnly(row) == \E c \in 1..Len(row) : row[c][1] # "null"

\* row.some(cell => ...)
hasNonEmptyCells(row) == \E c \in 1..Len(row) : NonEmptyCell(row[c])

rowHeader(rowIndex) == <<"R","o","w"," ">> \o ToStr(rowIndex + 1) \o <<":"," ">>

\* the body of values.forEach((row, rowIndex) => ...): fs is [output, hasContent]
RowStep(fs, row, rowIndex) ==
  IF ~hasNonEmptyCells(row) THEN fs
  ELSE LET st == CellLoop([output |-> fs.output \o rowHeader(rowIndex),
                           currentLine |-> <<>>, isFirstCell |-> TRUE],
                          row, rowIndex, 0)
       IN [output |-> (IF Len(st.currentLine) > 0 THEN st.output \o st.currentLine
                       ELSE st.output) \o newline,
           hasContent |-> TRUE]

RECURSIVE RowLoop(_, _, _)
RowLoop(fs, values, rowIndex) ==
  IF rowIndex >= Len(values) THEN fs
  ELSE RowLoop(RowStep(fs, values[rowIndex + 1], rowIndex), values, rowIndex + 1)

formatWorksheetOutput(values) ==
  IF Len(values) = 0 THEN worksheetIsEmpty
  ELSE LET fs == RowLoop([output |-> <<>>, hasContent |-> FALSE], values, 0)
       IN IF ~fs.hasContent THEN worksheetIsEmpty ELSE fs.output

(***************************************************************************)
(* State.                                                                  *)
(***************************************************************************)
VARIABLES
  inputValue,     \* Chat: the text in the input box, as phrases
  isProcessing,   \* Chat: a request is in flight
  rendered,       \* Chat: the isProcessing of the last render, which the handlers
                  \* and the disabled props of that render see
  pending,        \* the texts of the calls of handleSendMessage that have not settled
  status,         \* Chat: the status line
  messages,       \* Chat: the conversation
  cpc,            \* where handleSendMessage is
  sent,           \* the inputValue handleSendMessage captured
  rpc,            \* where processMessage is
  handledBy,      \* the branch of processMessage that took the message
  localResponse,  \* what processMessage returned
  aiResponse,     \* the response envelope of the turn
  incoming,       \* a response a backend caller hands to processAIAgentResponse
  batch,          \* executeActions: the actions
  idx,            \* executeActions: position of the for loop
  epc,            \* where executeActions is
  dispatched,     \* the actions executeAction was entered for, in order
  warned,         \* the actions that reached console.warn
  logged,         \* the actions whose formatting request reached console.log
  faulty,         \* the callers whose document call is made to fail
  grid,           \* the document
  inflight,       \* the document call that is pending, if any
  portLog,        \* the document calls begun and ended, in order
  grid0,          \* the document as it was before the request
  fpc,            \* where a call of a formatting method is
  request,        \* the formatting method called and its argument
  result,         \* what the formatting method returned
  temp,           \* getColumnLetter: temp
  letter,         \* getColumnLetter: letter
  workbook,       \* ExcelService: the written values this.workbook holds
  isInitialized,  \* ExcelService: isInitialized
  autoSaveInterval, \* ExcelService: the timer handle, 0 for null
  timers,         \* the interval timers that are set and not cleared
  initCalls,      \* the calls of initializeWorkbook, in the order they began
  writeCalls,     \* the calls of writeToCell and writeToRange
  disposed,       \* dispose() has been called
  autosaved       \* the autosave timer fired after dispose()

chatVars == <<inputValue, isProcessing, rendered, pending, status, messages, cpc, sent>>
resolverVars == <<rpc, handledBy, localResponse>>
executorVars == <<batch, idx, epc, dispatched, warned, logged>>
portVars == <<grid, inflight, portLog>>
\* what the environment fixed before the request
formatVars == <<fpc, request, result, temp, letter>>
envVars == <<faulty, grid0, formatVars>>
workbookVars ==
  <<workbook, isInitialized, autoSaveInterval, timers, initCalls, writeCalls, disposed,
    autosaved>>
vars ==
  <<chatVars, resolverVars, aiResponse, incoming, executorVars, envVars, portVars,
    workbookVars>>

\* who makes a document call: the resolver, or the action at a batch position
Resolver == <<"resolver">>
ActionAt(i) == <<"action", i>>

NoCall == [op |-> "none", by |-> Resolver]
NoResponse == AgentResponse(Msg("", <<>>), NoAction, NoBody)
NoEnvelope == AIAgentResponse(Msg("", <<>>), <<>>)

PortCall(op, by, address, value) ==
  [op |-> op, by |-> by, address |-> address, value |-> value]

Event(ev, call) == [ev |-> ev, op |-> call.op, by |-> call.by]

\* the batch positions whose action calls the document
WriteIndices(b) == {i \in 1..Len(b) : b[i].type \in {"WRITE_CELL", "WRITE_RANGE"}}

\* the workbook copy of ExcelService is not looked at
WorkbookIdle ==
  /\ workbook = {}
  /\ isInitialized = FALSE
  /\ autoSaveInterval = 0
  /\ timers = {}
  /\ initCalls = <<>>
  /\ writeCalls = <<>>
  /\ disposed = FALSE
  /\ autosaved = FALSE

\* no formatting method is being called on its own
FormatIdle ==
  /\ fpc = "off"
  /\ request = [kind |-> "none"]
  /\ result = <<>>
  /\ temp = 0
  /\ letter = <<>>

(***************************************************************************)
(* Init: the services are constructed and idle, and the environment has    *)
(* one request ready: a text typed into the input box, or a response a     *)
(* backend caller is about to hand to processAIAgentResponse.              *)
(***************************************************************************)
Init ==
  /\ isProcessing = FALSE
  /\ rendered = FALSE
  /\ pending = <<>>
  /\ status = "Ready"
  /\ messages = <<>>
  /\ cpc = "idle"
  /\ sent = <<>>
  /\ rpc = "idle"
  /\ handledBy = "none"
  /\ localResponse = NoResponse
  /\ aiResponse = NoEnvelope
  /\ batch = <<>>
  /\ idx = 1
  /\ epc = "idle"
  /\ dispatched = <<>>
  /\ warned = {}
  /\ logged = {}
  /\ WorkbookIdle
  /\ grid \in InitialGrids
  /\ grid0 = grid
  /\ FormatIdle
  /\ inflight = NoCall
  /\ portLog = <<>>
  /\ \/ /\ inputValue \in Messages
        /\ incoming = <<>>
        /\ faulty \in SUBSET {Resolver}
     \/ /\ inputValue = <<>>
        /\ \E b \in Batches :
             /\ incoming = <<AIAgentResponse(Msg("backend", <<>>), b)>>
             /\ faulty \in SUBSET {ActionAt(i) : i \in WriteIndices(b)}

(***************************************************************************)
(* ExcelService, as its callers see it.  A call is begun and later ends:   *)
(* it returns, or it throws what Excel.run threw.                          *)
(***************************************************************************)
hostError == <<"Excel.run failed">>

\* the rows and columns an address spans
RangeDims(address) ==
  LET At(i) == address[i] = ":"
      c == Leftmost(address, {i \in 1..Len(address) : At(i)})
      a == CellOf(StartCell(address))
      b == IF c = 0 THEN a ELSE CellOf(SubSeq(address, c + 1, Len(address)))
  IN <<b[1] - a[1] + 1, b[2] - a[2] + 1>>

\* range.values = values is taken only for a two-dimensional array of the
\* size of the range; Excel.run rejects anything else
IsMatrixFor(values, address) ==
  /\ values[1] = "arr"
  /\ Len(values[2]) = RangeDims(address)[1]
  /\ \A r \in 1..Len(values[2]) :
       /\ values[2][r][1] = "arr"
       /\ Len(values[2][r][2]) = RangeDims(address)[2]

\* does the pending call end by throwing
Throws(call) ==
  \/ call.by \in faulty
  \/ call.op = "writeToRange" /\ ~IsMatrixFor(call.value, call.address)

\* a document that the worksheet read clears, as the read clears the local copy
GridAfterClearing(g, call) ==
  IF call.op = "writeToCell" THEN GridWriteCell(g, call.address, call.value)
  ELSE IF call.op = "writeToRange" THEN GridWriteRange(g, call.address, call.value)
  ELSE IF call.op = "getCurrentWorksheet" THEN EmptyGrid
  ELSE g

\* the document after the call returned
GridAfter(g, call) ==
  IF call.op = "writeToCell" THEN GridWriteCell(g, call.address, call.value)
  ELSE IF call.op = "writeToRange" THEN GridWriteRange(g, call.address, call.value)
  ELSE g

BeginCall(call) ==
  /\ inflight' = call
  /\ portLog' = Append(portLog, Event("call", call))
  /\ grid' = grid

(***************************************************************************)
(* Chat.handleSendMessage, up to its first await.  The call of             *)
(* processMessage runs inside it as far as the if-statements that pick the *)
(* rule: handledBy is the rule picked.                                     *)
(***************************************************************************)
\* a handleSendMessage that does not call setIsProcessing(true)
handleSendMessageNoLock ==
  /\ ~rendered
  /\ \E text \in {Join(inputValue)} :
       /\ trim(text) # <<>>
       /\ handledBy' = Classify(text)
  /\ messages' = Append(messages, [sender |-> "user", content |-> Msg("input", inputValue)])
  /\ sent' = inputValue
  /\ inputValue' = <<>>
  /\ pending' = Append(pending, inputValue)
  /\ status' = "Processing..."
  /\ cpc' = "local"
  /\ rpc' = "start"
  /\ UNCHANGED <<isProcessing, rendered, localResponse, aiResponse, incoming, executorVars,
                 envVars, portVars, workbookVars>>

handleSendMessage ==
  /\ ~rendered
  /\ \E text \in {Join(inputValue)} :
       /\ trim(text) # <<>>
       /\ handledBy' = Classify(text)
  /\ messages' = Append(messages, [sender |-> "user", content |-> Msg("input", inputValue)])
  /\ sent' = inputValue
  /\ inputValue' = <<>>
  /\ isProcessing' = TRUE
  /\ rendered' = TRUE
  /\ pending' = Append(pending, inputValue)
  /\ status' = "Processing..."
  /\ cpc' = "local"
  /\ rpc' = "start"
  /\ UNCHANGED <<localResponse, aiResponse, incoming, executorVars, envVars, portVars, workbookVars>>

(***************************************************************************)
(* AgentService.processMessage, one action for each way through it.        *)
(***************************************************************************)
Return(response) ==
  /\ localResponse' = response
  /\ rpc' = "returned"
  /\ UNCHANGED <<chatVars, handledBy, aiResponse, incoming, executorVars, envVars, portVars,
                 workbookVars>>

Await(call) ==
  /\ rpc' = "await"
  /\ BeginCall(call)
  /\ UNCHANGED <<chatVars, handledBy, localResponse, aiResponse, incoming, executorVars,
                 envVars, workbookVars>>

processMessagePivot ==
  /\ rpc = "start"
  /\ handledBy = "pivot"
  /\ \E message \in {Join(sent)} : Return(PivotResponse(message))

processMessageRead ==
  /\ rpc = "start"
  /\ handledBy = "read"
  /\ Await(PortCall("getCurrentWorksheet", Resolver, <<>>, <<"none">>))

processMessageWriteCell ==
  /\ rpc = "start"
  /\ handledBy = "write_cell"
  /\ \E message \in {Join(sent)} : \E args \in {CellWriteArgs(message)} :
       Await(PortCall("writeToCell", Resolver, args.address, args.value))

processMessageWriteRange ==
  /\ rpc = "start"
  /\ handledBy = "write_range"
  /\ \E message \in {Join(sent)} : \E args \in {RangeWriteArgs(message)} :
       /\ args.parsed.ok
       /\ Await(PortCall("writeToRange", Resolver, args.address, args.parsed.val))

\* parseValuesString threw: the catch of the range-write rule answers
processMessageRangeError ==
  /\ rpc = "start"
  /\ handledBy = "write_range"
  /\ \E message \in {Join(sent)} : \E args \in {RangeWriteArgs(message)} :
       /\ ~args.parsed.ok
       /\ Return(AgentResponse(Msg("Error writing to range: $1", <<args.parsed.error>>),
                               NoAction, NoBody))

processMessageSelection ==
  /\ rpc = "start"
  /\ handledBy = "selection"
  /\ Await(PortCall("getSelectedRange", Resolver, <<>>, <<"none">>))

\* a default branch that looks at the selection before it answers
processMessageDefaultProbing ==
  /\ rpc = "start"
  /\ handledBy \in {"pivot_manual", "default"}
  /\ Await(PortCall("getSelectedRange", Resolver, <<>>, <<"none">>))

\* the rules after the selection rule: the second pivot block and the help text
processMessageDefault ==
  /\ rpc = "start"
  /\ handledBy \in {"pivot_manual", "default"}
  /\ IF handledBy = "pivot_manual"
     THEN \E message \in {Join(sent)} : Return(ManualPivotResponse(message))
     ELSE Return(DefaultResponse)

\* what processMessage answers when its document call returned
Answer(call, g) ==
  IF call.op = "getCurrentWorksheet"
  THEN AgentResponse(Msg("Here's what I found in the worksheet \"$1\":", <<<<"Sheet1">>>>),
                     Action("READ_RANGE", [values |-> g]),
                     [kind |-> "worksheet", values |-> g])
  ELSE IF call.op = "writeToCell"
  THEN AgentResponse(Msg("I've written the value \"$1\" to cell $2",
                         <<call.value[2], call.address>>),
                     Action("WRITE_CELL", [address |-> call.address, value |-> call.value]),
                     NoBody)
  ELSE IF call.op = "writeToRange"
  THEN AgentResponse(Msg("I've written values to range $1", <<call.address>>),
                     Action("WRITE_RANGE", [address |-> call.address, values |-> call.value]),
                     NoBody)
  ELSE AgentResponse(Msg("Here's what's in the selected range $1:\n$2", <<<<"selection">>>>),
                     Action("READ_RANGE", [values |-> g]),
                     NoBody)

\* what the catch of the rule answers when the call threw
CatchText(op) ==
  IF op = "getCurrentWorksheet" THEN "Error reading worksheet: $1"
  ELSE IF op = "writeToCell" THEN "Error writing to cell: $1"
  ELSE IF op = "writeToRange" THEN "Error writing to range: $1"
  ELSE "Error reading selected range: $1"

processMessageCallReturns ==
  /\ rpc = "await"
  /\ inflight.by = Resolver
  /\ ~Throws(inflight)
  /\ grid' = GridAfter(grid, inflight)
  /\ portLog' = Append(portLog, Event("return", inflight))
  /\ inflight' = NoCall
  /\ localResponse' = Answer(inflight, grid)
  /\ rpc' = "returned"
  /\ UNCHANGED <<chatVars, handledBy, aiResponse, incoming, executorVars, envVars, workbookVars>>

processMessageCallThrows ==
  /\ rpc = "await"
  /\ inflight.by = Resolver
  /\ Throws(inflight)
  /\ inflight.op # "getSelectedRange"
  /\ portLog' = Append(portLog, Event("throw", inflight))
  /\ inflight' = NoCall
  /\ localResponse' = AgentResponse(Msg(CatchText(inflight.op), <<hostError>>), NoAction, NoBody)
  /\ rpc' = "returned"
  /\ UNCHANGED <<chatVars, handledBy, aiResponse, incoming, executorVars, envVars, grid,
                 workbookVars>>

\* getSelectedRange wraps Excel.run in a promise that only ever resolves:
\* when Excel.run rejects, nothing settles it and processMessage stays there
processMessageCallHangs ==
  /\ rpc = "await"
  /\ inflight.by = Resolver
  /\ Throws(inflight)
  /\ inflight.op = "getSelectedRange"
  /\ portLog' = Append(portLog, Event("throw", inflight))
  /\ inflight' = NoCall
  /\ rpc' = "hung"
  /\ UNCHANGED <<chatVars, handledBy, localResponse, aiResponse, incoming, executorVars,
                 envVars, grid, workbookVars>>

(***************************************************************************)
(* Chat.handleSendMessage after processMessage returned.                   *)
(***************************************************************************)
AssistantMessage(content, action, envelope) ==
  [sender |-> "assistant", content |-> content, action |-> action, aiResponse |-> envelope]

\* a read operation: the local response becomes the envelope, nothing is sent
handleSendMessageRead ==
  /\ cpc = "local"
  /\ rpc = "returned"
  /\ \E inputText \in {Join(sent)} : isReadOperation(inputText)
  /\ aiResponse' = AIAgentResponse(localResponse.message, <<>>)
  /\ messages' = Append(messages,
                        AssistantMessage(localResponse.message, localResponse.action,
                                         aiResponse'))
  /\ status' = "Ready"
  /\ isProcessing' = FALSE
  /\ pending' = Tail(pending)
  /\ cpc' = "done"
  /\ UNCHANGED <<inputValue, rendered, sent, resolverVars, incoming, executorVars, envVars,
                 portVars, workbookVars>>

\* anything else: sendMessageToAIAgent, then processAIAgentResponse, which
\* enters executeActions with the actions of the response
handleSendMessageRemote ==
  /\ cpc = "local"
  /\ rpc = "returned"
  /\ \E inputText \in {Join(sent)} :
       /\ ~isReadOperation(inputText)
       /\ aiResponse' = sendMessageToAIAgent(inputText)
  /\ batch' = aiResponse'.actions
  /\ idx' = 1
  /\ epc' = "loop"
  /\ cpc' = "executing"
  /\ UNCHANGED <<inputValue, isProcessing, rendered, pending, status, messages, sent,
                 resolverVars, incoming, dispatched, warned, logged, envVars, portVars,
                 workbookVars>>

\* a settle step without the finally block: isProcessing is left as it is
handleSendMessageSettleLocked ==
  /\ cpc = "executing"
  /\ epc \in {"resolved", "rejected"}
  /\ messages' = Append(messages,
                        AssistantMessage(localResponse.message, localResponse.action,
                                         aiResponse))
  /\ status' = "Ready"
  /\ pending' = Tail(pending)
  /\ cpc' = "done"
  /\ UNCHANGED <<inputValue, isProcessing, rendered, sent, resolverVars, aiResponse, incoming,
                 executorVars, envVars, portVars, workbookVars>>

\* processAIAgentResponse settled: the try block ends, or the catch runs, and
\* then the finally
handleSendMessageSettle ==
  /\ cpc = "executing"
  /\ epc \in {"resolved", "rejected"}
  /\ IF epc = "resolved"
     THEN /\ messages' = Append(messages,
                                AssistantMessage(localResponse.message, localResponse.action,
                                                 aiResponse))
          /\ status' = "Ready"
     ELSE /\ messages' = Append(messages,
                                AssistantMessage(
                                  Msg("Sorry, I encountered an error while processing your request. Please try again.", <<>>),
                                  NoAction, NoEnvelope))
          /\ status' = "Error occurred"
  /\ isProcessing' = FALSE
  /\ pending' = Tail(pending)
  /\ cpc' = "done"
  /\ UNCHANGED <<inputValue, rendered, sent, resolverVars, aiResponse, incoming, executorVars,
                 envVars, portVars, workbookVars>>

(***************************************************************************)
(* AgentService.processAIAgentResponse called by a backend caller.         *)
(***************************************************************************)
processAIAgentResponse ==
  /\ cpc = "idle"
  /\ epc = "idle"
  /\ incoming # <<>>
  /\ aiResponse' = Head(incoming)
  /\ incoming' = Tail(incoming)
  /\ batch' = Head(incoming).actions
  /\ idx' = 1
  /\ epc' = "loop"
  /\ UNCHANGED <<chatVars, resolverVars, dispatched, warned, logged, envVars, portVars,
                 workbookVars>>

(***************************************************************************)
(* ExcelActionExecutor.executeActions and executeAction.                   *)
(***************************************************************************)
\* the for loop has no action left: the promise of executeActions resolves
executeActionsDone ==
  /\ epc = "loop"
  /\ idx > Len(batch)
  /\ epc' = "resolved"
  /\ UNCHANGED <<chatVars, resolverVars, aiResponse, incoming, batch, idx, dispatched,
                 warned, logged, envVars, portVars, workbookVars>>

\* the document call an action makes
CallOf(action, i) ==
  IF action.type = "WRITE_CELL"
  THEN PortCall("writeToCell", ActionAt(i), action.data.address, action.data.value)
  ELSE PortCall("writeToRange", ActionAt(i), action.data.address, action.data.values)

\* a write handler that starts the call and does not await it
executeWriteNoAwait ==
  /\ epc = "loop"
  /\ idx <= Len(batch)
  /\ batch[idx].type \in {"WRITE_CELL", "WRITE_RANGE"}
  /\ dispatched' = Append(dispatched, idx)
  /\ BeginCall(CallOf(batch[idx], idx))
  /\ epc' = "loop"
  /\ idx' = idx + 1
  /\ UNCHANGED <<chatVars, resolverVars, aiResponse, incoming, batch, warned, logged,
                 envVars, workbookVars>>

\* case WRITE_CELL, case WRITE_RANGE: executeWriteCell, executeWriteRange
executeWrite ==
  /\ epc = "loop"
  /\ idx <= Len(batch)
  /\ batch[idx].type \in {"WRITE_CELL", "WRITE_RANGE"}
  /\ dispatched' = Append(dispatched, idx)
  /\ BeginCall(CallOf(batch[idx], idx))
  /\ epc' = "await"
  /\ UNCHANGED <<chatVars, resolverVars, aiResponse, incoming, batch, idx, warned, logged,
                 envVars, workbookVars>>

\* a logging handler that also reads the cell through the document port
executeLoggedReading ==
  /\ epc = "loop"
  /\ idx <= Len(batch)
  /\ batch[idx].type \in ExcelActionType \ {"WRITE_CELL", "WRITE_RANGE"}
  /\ dispatched' = Append(dispatched, idx)
  /\ idx' = idx + 1
  /\ portLog' = Append(portLog, Event("call", PortCall("readRange", ActionAt(idx), adrA1, <<"none">>)))
  /\ UNCHANGED <<chatVars, resolverVars, aiResponse, incoming, batch, epc, warned, logged,
                 envVars, grid, inflight, workbookVars>>

\* the fourteen other cases: the handler logs the request and returns
executeLogged ==
  /\ epc = "loop"
  /\ idx <= Len(batch)
  /\ batch[idx].type \in ExcelActionType \ {"WRITE_CELL", "WRITE_RANGE"}
  /\ dispatched' = Append(dispatched, idx)
  /\ idx' = idx + 1
  /\ UNCHANGED <<chatVars, resolverVars, aiResponse, incoming, batch, epc, warned, logged,
                 envVars, portVars, workbookVars>>

\* default: console.warn, and executeAction returns normally
executeUnknown ==
  /\ epc = "loop"
  /\ idx <= Len(batch)
  /\ batch[idx].type \notin ExcelActionType
  /\ dispatched' = Append(dispatched, idx)
  /\ warned' = warned \cup {idx}
  /\ idx' = idx + 1
  /\ UNCHANGED <<chatVars, resolverVars, aiResponse, incoming, batch, epc, logged, envVars,
                 portVars, workbookVars>>

\* if (data.formatting)
HasFormatting(action) == "formatting" \in DOMAIN action.data

\* the awaited write returned: the handler logs a formatting request, if the
\* action carries one, and the loop goes on with the next action
executeWriteReturns ==
  /\ epc = "await"
  /\ inflight.by = ActionAt(idx)
  /\ ~Throws(inflight)
  /\ grid' = GridAfter(grid, inflight)
  /\ portLog' = Append(portLog, Event("return", inflight))
  /\ inflight' = NoCall
  /\ idx' = idx + 1
  /\ epc' = "loop"
  /\ logged' = IF HasFormatting(batch[idx]) THEN logged \cup {idx} ELSE logged
  /\ UNCHANGED <<chatVars, resolverVars, aiResponse, incoming, batch, dispatched, warned,
                 envVars, workbookVars>>

\* the awaited write threw: executeAction logs and rethrows, the await in the
\* loop of executeActions throws, and the promise of executeActions rejects
executeWriteThrows ==
  /\ epc = "await"
  /\ inflight.by = ActionAt(idx)
  /\ Throws(inflight)
  /\ portLog' = Append(portLog, Event("throw", inflight))
  /\ inflight' = NoCall
  /\ epc' = "rejected"
  /\ UNCHANGED <<chatVars, resolverVars, aiResponse, incoming, batch, idx, dispatched,
                 warned, logged, envVars, grid, workbookVars>>

(***************************************************************************)
(* The specification.                                                      *)
(***************************************************************************)
Next ==
  \/ handleSendMessage
  \/ processMessagePivot
  \/ processMessageRead
  \/ processMessageWriteCell
  \/ processMessageWriteRange
  \/ processMessageRangeError
  \/ processMessageSelection
  \/ processMessageDefault
  \/ processMessageCallReturns
  \/ processMessageCallThrows
  \/ processMessageCallHangs
  \/ handleSendMessageRead
  \/ handleSendMessageRemote
  \/ handleSendMessageSettle
  \/ processAIAgentResponse
  \/ executeActionsDone
  \/ executeWrite
  \/ executeLogged
  \/ executeUnknown
  \/ executeWriteReturns
  \/ executeWriteThrows

Spec == Init /\ [][Next]_vars

(***************************************************************************)
(* The formatting methods of AgentService on their own: one call of        *)
(* formatWorksheetOutput, wrapText or getColumnLetter with an argument the *)
(* read path can hand it.                                                  *)
(***************************************************************************)
Chars(n, c) == [i \in 1..n |-> c]

\* cell values: empty ones, a short text, a number, a text that fills half
\* a line, a text with spaces that is longer than a line, and a word that
\* is longer than a line
CellInputs ==
  {<<"null">>, <<"undef">>, <<"str", <<>>>>,
   <<"str", <<"x">>>>, <<"num", 7>>,
   <<"str", Chars(20, "a")>>,
   <<"str", Chars(20, "b") \o <<" ">> \o Chars(20, "c") \o <<" ">> \o Chars(3, "d")>>,
   <<"str", Chars(41, "w")>>}

RowInputs == UNION {[1..n -> CellInputs] : n \in 0..MaxCols}
LeadRows == {<<<<"null">>>>, <<<<"str", <<"y">>>>>>}
WorksheetInputs ==
  {<<>>} \cup {<<row>> : row \in RowInputs}
         \cup {<<lead, row>> : lead \in LeadRows, row \in RowInputs}

\* words of a cell text; the empty word stands for two spaces in a row
WrapWords == {<<>>, <<"a", "b">>, Chars(10, "e"), Chars(37, "f"), Chars(38, "g")}

RECURSIVE JoinWords(_)
JoinWords(words) ==
  IF Len(words) = 1 THEN words[1]
  ELSE words[1] \o <<" ">> \o JoinWords(Tail(words))

\* the cell entries formatWorksheetOutput hands to wrapText: those longer
\* than a line
WrapInputs ==
  {e \in {cellContent(<<"str", JoinWords(ws)>>, 0, 0) :
            ws \in UNION {[1..n -> WrapWords] : n \in 1..MaxWrapWords}} :
     Len(e) > maxLineLength}

FormatInit ==
  /\ inputValue = <<>>
  /\ isProcessing = FALSE
  /\ rendered = FALSE
  /\ pending = <<>>
  /\ status = "Ready"
  /\ messages = <<>>
  /\ cpc = "idle"
  /\ sent = <<>>
  /\ rpc = "idle"
  /\ handledBy = "none"
  /\ localResponse = NoResponse
  /\ aiResponse = NoEnvelope
  /\ incoming = <<>>
  /\ batch = <<>>
  /\ idx = 1
  /\ epc = "idle"
  /\ dispatched = <<>>
  /\ warned = {}
  /\ logged = {}
  /\ WorkbookIdle
  /\ faulty = {}
  /\ grid = EmptyGrid
  /\ grid0 = grid
  /\ inflight = NoCall
  /\ portLog = <<>>
  /\ fpc = "ready"
  /\ result = <<>>
  /\ temp = 0
  /\ letter = <<>>
  /\ \/ \E values \in WorksheetInputs : request = [kind |-> "format", values |-> values]
     \/ \E text \in WrapInputs : request = [kind |-> "wrap", text |-> text]
     \/ \E index \in 0..MaxIndex : request = [kind |-> "letter", index |-> index]

servicesVars ==
  <<chatVars, resolverVars, aiResponse, incoming, executorVars, faulty, grid0, portVars,
    workbookVars>>

formatWorksheetOutputCall ==
  /\ fpc = "ready"
  /\ request.kind = "format"
  /\ result' = formatWorksheetOutput(request.values)
  /\ fpc' = "done"
  /\ UNCHANGED <<servicesVars, request, temp, letter>>

wrapTextCall ==
  /\ fpc = "ready"
  /\ request.kind = "wrap"
  /\ result' = wrapText(request.text, maxLineLength)
  /\ fpc' = "done"
  /\ UNCHANGED <<servicesVars, request, temp, letter>>

\* let letter = ''; let temp = index;
getColumnLetterEnter ==
  /\ fpc = "ready"
  /\ request.kind = "letter"
  /\ temp' = request.index
  /\ letter' = <<>>
  /\ fpc' = "loop"
  /\ UNCHANGED <<servicesVars, request, result>>

\* while (temp >= 0): one pass
getColumnLetterPass ==
  /\ fpc = "loop"
  /\ temp >= 0
  /\ temp' = LetterStep(temp, letter).temp
  /\ letter' = LetterStep(temp, letter).letter
  /\ UNCHANGED <<servicesVars, request, result, fpc>>

\* return letter;
getColumnLetterReturn ==
  /\ fpc = "loop"
  /\ ~(temp >= 0)
  /\ result' = letter
  /\ fpc' = "done"
  /\ UNCHANGED <<servicesVars, request, temp, letter>>

FormatNext ==
  \/ formatWorksheetOutputCall
  \/ wrapTextCall
  \/ getColumnLetterEnter
  \/ getColumnLetterPass
  \/ getColumnLetterReturn

FormatSpec == FormatInit /\ [][FormatNext]_vars

(***************************************************************************)
(* The executor on its own, called with batches whose write actions may    *)
(* carry the optional formatting field of WriteCellData and WriteRangeData.*)
(***************************************************************************)
\* a CellFormatting value
boldFormatting == [font |-> [bold |-> TRUE]]

rowOf78 == <<"arr", <<<<"arr", <<<<"num", 7>>, <<"num", 8>>>>>>>>>>

FormattingInputs ==
  {Action("WRITE_CELL", [address |-> adrB2, value |-> <<"num", 2>>]),
   Action("WRITE_CELL",
          [address |-> adrB2, value |-> <<"num", 2>>, formatting |-> boldFormatting]),
   Action("WRITE_RANGE", [address |-> adrA1B1, values |-> rowOf78]),
   Action("WRITE_RANGE",
          [address |-> adrA1B1, values |-> rowOf78, formatting |-> boldFormatting]),
   Action("READ_CELL", NoData),
   Action("MERGE_CELLS", NoData)}

FormattingBatches == UNION {[1..n -> FormattingInputs] : n \in 0..MaxBatch}

ExecInit ==
  /\ inputValue = <<>>
  /\ isProcessing = FALSE
  /\ rendered = FALSE
  /\ pending = <<>>
  /\ status = "Ready"
  /\ messages = <<>>
  /\ cpc = "idle"
  /\ sent = <<>>
  /\ rpc = "idle"
  /\ handledBy = "none"
  /\ localResponse = NoResponse
  /\ aiResponse = NoEnvelope
  /\ batch = <<>>
  /\ idx = 1
  /\ epc = "idle"
  /\ dispatched = <<>>
  /\ warned = {}
  /\ logged = {}
  /\ WorkbookIdle
  /\ grid \in InitialGrids
  /\ grid0 = grid
  /\ FormatIdle
  /\ inflight = NoCall
  /\ portLog = <<>>
  /\ \E b \in FormattingBatches :
       /\ incoming = <<AIAgentResponse(Msg("backend", <<>>), b)>>
       /\ faulty \in SUBSET {ActionAt(i) : i \in WriteIndices(b)}

ExecNext ==
  \/ processAIAgentResponse
  \/ executeActionsDone
  \/ executeWrite
  \/ executeLogged
  \/ executeUnknown
  \/ executeWriteReturns
  \/ executeWriteThrows

ExecSpec == ExecInit /\ [][ExecNext]_vars

(***************************************************************************)
(* One turn of the chat under the scheduling of the event loop: a          *)
(* continuation that is ready to run is run, and a document call that can  *)
(* end does end.                                                           *)
(***************************************************************************)
\* the input box is empty and nothing has been sent
ChatInit ==
  /\ isProcessing = FALSE
  /\ rendered = FALSE
  /\ pending = <<>>
  /\ status = "Ready"
  /\ messages = <<>>
  /\ cpc = "idle"
  /\ sent = <<>>
  /\ rpc = "idle"
  /\ handledBy = "none"
  /\ localResponse = NoResponse
  /\ aiResponse = NoEnvelope
  /\ batch = <<>>
  /\ idx = 1
  /\ epc = "idle"
  /\ dispatched = <<>>
  /\ warned = {}
  /\ logged = {}
  /\ WorkbookIdle
  /\ grid \in InitialGrids
  /\ grid0 = grid
  /\ FormatIdle
  /\ inflight = NoCall
  /\ portLog = <<>>
  /\ inputValue = <<>>
  /\ incoming = <<>>
  /\ faulty \in SUBSET {Resolver}

\* the texts typed in the chat turn: every phrase on its own, and the range
\* write whose values do not parse
TypedTexts ==
  {<<w>> : w \in Phrases} \cup {<<"Write range A1:B2", "values [[1,2],[3,4]">>}

\* onChange={(e) => setInputValue(e.target.value)}: the user types a text
onChange ==
  /\ cpc = "idle"
  /\ ~rendered
  /\ inputValue = <<>>
  /\ inputValue' \in TypedTexts
  /\ UNCHANGED <<isProcessing, rendered, pending, status, messages, cpc, sent, resolverVars, aiResponse,
                 incoming, executorVars, envVars, portVars, workbookVars>>

ChatNext ==
  \/ onChange
  \/ handleSendMessage
  \/ processMessagePivot
  \/ processMessageRead
  \/ processMessageWriteCell
  \/ processMessageWriteRange
  \/ processMessageRangeError
  \/ processMessageSelection
  \/ processMessageDefault
  \/ processMessageCallReturns
  \/ processMessageCallThrows
  \/ processMessageCallHangs
  \/ handleSendMessageRead
  \/ handleSendMessageRemote
  \/ handleSendMessageSettle
  \/ executeActionsDone
  \/ executeLogged

LiveSpec == ChatInit /\ [][ChatNext]_vars /\ WF_vars(ChatNext)

(***************************************************************************)
(* The chat over several turns.  Send events (the button's onClick, Enter  *)
(* in the input) and typing can come at any moment; what they do is        *)
(* decided by the last render: the handlers see its isProcessing, and the  *)
(* input takes no typing while its disabled prop is set.  State set in an  *)
(* event handler is rendered before the next event is handled; state set   *)
(* after an await is rendered later.                                       *)
(***************************************************************************)
\* one text for each way a turn can go: the read path, a document write, the
\* selection (whose failing call never settles), the pivot answer, the
\* remote step only
TurnTexts ==
  {<<"Read">>, <<"Write value 42 to cell A1">>, <<"selection">>, <<"pivot table">>,
   <<"make a chart">>}

\* onChange in any turn: the input is enabled in the last render
onChangeNextTurn ==
  /\ ~rendered
  /\ inputValue = <<>>
  /\ Len(messages) < 2 * MaxTurns - 1
  /\ inputValue' \in TurnTexts
  /\ UNCHANGED <<isProcessing, rendered, pending, status, messages, cpc, sent, resolverVars,
                 aiResponse, incoming, executorVars, envVars, portVars, workbookVars>>

\* the component renders with the state set after the last await
render ==
  /\ rendered # isProcessing
  /\ rendered' = isProcessing
  /\ UNCHANGED <<inputValue, isProcessing, pending, status, messages, cpc, sent,
                 resolverVars, aiResponse, incoming, executorVars, envVars, portVars,
                 workbookVars>>

TurnsNext ==
  \/ onChangeNextTurn
  \/ render
  \/ handleSendMessage
  \/ processMessagePivot
  \/ processMessageRead
  \/ processMessageWriteCell
  \/ processMessageSelection
  \/ processMessageDefault
  \/ processMessageCallReturns
  \/ processMessageCallThrows
  \/ processMessageCallHangs
  \/ handleSendMessageRead
  \/ handleSendMessageRemote
  \/ handleSendMessageSettle
  \/ executeActionsDone
  \/ executeLogged

TurnsSpec == ChatInit /\ [][TurnsNext]_vars

(***************************************************************************)
(* ExcelService and its workbook copy.  The constructor starts             *)
(* initializeWorkbook without awaiting it; an operation that finds         *)
(* isInitialized false starts another one and awaits it.  Each call of     *)
(* initializeWorkbook waits for Office.js, asks for the document data, and *)
(* then loads it into the workbook or puts a new workbook in its place.    *)
(* A written value is named by the position of its write call.             *)
(***************************************************************************)
InitCall(by) == [by |-> by, at |-> "waitForOfficeJs"]
WriteCall(op, at) == [op |-> op, at |-> at]
InitEnded(i) == initCalls[i].at \in {"loaded", "created"}

\* the state after new ExcelService(): the workbook is new and the
\* constructor's initializeWorkbook is at its first await
WorkbookInit ==
  /\ inputValue = <<>>
  /\ isProcessing = FALSE
  /\ rendered = FALSE
  /\ pending = <<>>
  /\ status = "Ready"
  /\ messages = <<>>
  /\ cpc = "idle"
  /\ sent = <<>>
  /\ rpc = "idle"
  /\ handledBy = "none"
  /\ localResponse = NoResponse
  /\ aiResponse = NoEnvelope
  /\ incoming = <<>>
  /\ batch = <<>>
  /\ idx = 1
  /\ epc = "idle"
  /\ dispatched = <<>>
  /\ warned = {}
  /\ logged = {}
  /\ faulty = {}
  /\ grid = EmptyGrid
  /\ grid0 = grid
  /\ FormatIdle
  /\ inflight = NoCall
  /\ portLog = <<>>
  /\ workbook = {}
  /\ isInitialized = FALSE
  /\ autoSaveInterval = 0
  /\ timers = {}
  /\ initCalls = <<InitCall(<<"constructor">>)>>
  /\ writeCalls = <<>>
  /\ disposed = FALSE
  /\ autosaved = FALSE

notWorkbookVars ==
  <<chatVars, resolverVars, aiResponse, incoming, executorVars, envVars, portVars>>

\* startAutoSave: the interval that is set is cleared, and a new one is set
\* (handle: a number no other timer has)
startAutoSave(handle) ==
  /\ timers' = (timers \ {autoSaveInterval}) \cup {handle}
  /\ autoSaveInterval' = handle

\* await this.waitForOfficeJs() resolves
initializeWorkbookOfficeReady ==
  \E i \in 1..Len(initCalls) :
    /\ initCalls[i].at = "waitForOfficeJs"
    /\ initCalls' = [initCalls EXCEPT ![i].at = "getCurrentDocumentData"]
    /\ UNCHANGED <<workbook, isInitialized, autoSaveInterval, timers, writeCalls, disposed,
                   autosaved, notWorkbookVars>>

\* await this.getCurrentDocumentData() resolves with the document data
initializeWorkbookGotData ==
  \E i \in 1..Len(initCalls) :
    /\ initCalls[i].at = "getCurrentDocumentData"
    /\ initCalls' = [initCalls EXCEPT ![i].at = "loadWorkbookFromData"]
    /\ UNCHANGED <<workbook, isInitialized, autoSaveInterval, timers, writeCalls, disposed,
                   autosaved, notWorkbookVars>>

\* workbook.xlsx.load(data) resolves: the workbook now holds what the
\* document holds, which is none of the values written to the copy
initializeWorkbookLoaded ==
  \E i \in 1..Len(initCalls) :
    /\ initCalls[i].at = "loadWorkbookFromData"
    /\ workbook' = {}
    /\ startAutoSave(i)
    /\ isInitialized' = TRUE
    /\ initCalls' = [initCalls EXCEPT ![i].at = "loaded"]
    /\ UNCHANGED <<writeCalls, disposed, autosaved, notWorkbookVars>>

\* getCurrentDocumentData resolved with null, or the load threw:
\* this.workbook = new ExcelJS.Workbook()
initializeWorkbookCreated ==
  \E i \in 1..Len(initCalls) :
    /\ initCalls[i].at \in {"getCurrentDocumentData", "loadWorkbookFromData"}
    /\ workbook' = {}
    /\ isInitialized' = TRUE
    /\ startAutoSave(i)
    /\ initCalls' = [initCalls EXCEPT ![i].at = "created"]
    /\ UNCHANGED <<writeCalls, disposed, autosaved, notWorkbookVars>>

\* writeToCell, writeToRange are called: with isInitialized set the value
\* is written at once, otherwise the method starts initializeWorkbook and
\* awaits it
WriteCalled(op) ==
  /\ IF isInitialized
     THEN /\ writeCalls' = Append(writeCalls, WriteCall(op, "done"))
          /\ workbook' = workbook \cup {Len(writeCalls) + 1}
          /\ UNCHANGED initCalls
     ELSE /\ writeCalls' = Append(writeCalls, WriteCall(op, "initializeWorkbook"))
          /\ initCalls' = Append(initCalls, InitCall(<<"write", Len(writeCalls) + 1>>))
          /\ UNCHANGED workbook
  /\ UNCHANGED <<isInitialized, autoSaveInterval, timers, disposed, autosaved,
                 notWorkbookVars>>

writeToCell ==
  /\ Len(writeCalls) < MaxWrites
  /\ WriteCalled("writeToCell")

writeToRange ==
  /\ Len(writeCalls) < MaxWrites
  /\ WriteCalled("writeToRange")

\* the initializeWorkbook a write awaited has ended: the value is written
writeResumes ==
  \E w \in 1..Len(writeCalls) :
    /\ writeCalls[w].at = "initializeWorkbook"
    /\ \E i \in 1..Len(initCalls) : initCalls[i].by = <<"write", w>> /\ InitEnded(i)
    /\ workbook' = workbook \cup {w}
    /\ writeCalls' = [writeCalls EXCEPT ![w].at = "done"]
    /\ UNCHANGED <<isInitialized, autoSaveInterval, timers, initCalls, disposed, autosaved,
                   notWorkbookVars>>

\* dispose(): clearInterval, autoSaveInterval = null
dispose ==
  /\ ~disposed
  /\ disposed' = TRUE
  /\ timers' = timers \ {autoSaveInterval}
  /\ autoSaveInterval' = 0
  /\ UNCHANGED <<workbook, isInitialized, initCalls, writeCalls, autosaved, notWorkbookVars>>

\* an interval timer fires: autoSave()
autoSaveFires ==
  /\ timers # {}
  /\ disposed
  /\ ~autosaved
  /\ autosaved' = TRUE
  /\ UNCHANGED <<workbook, isInitialized, autoSaveInterval, timers, initCalls, writeCalls,
                 disposed, notWorkbookVars>>

WorkbookNext ==
  \/ initializeWorkbookOfficeReady
  \/ initializeWorkbookGotData
  \/ initializeWorkbookLoaded
  \/ initializeWorkbookCreated
  \/ writeToCell
  \/ writeToRange
  \/ writeResumes
  \/ dispose
  \/ autoSaveFires

WorkbookSpec == WorkbookInit /\ [][WorkbookNext]_vars

(***************************************************************************)
(* Properties.                                                             *)
(***************************************************************************)
Settled == epc \in {"resolved", "rejected"}
ExecutorEvent(e) == e.by[1] = "action"
Ended(e) == e.ev \in {"return", "throw"}
TurnText == Join(sent)
TurnLower == toLowerCase(Join(sent))
Classified == sent # <<>> /\ rpc = "start"
Answered == sent # <<>> /\ rpc = "returned"

\* C1: a failure of one action at the document is kept to that action, and
\* every later action of the batch is still dispatched: once executeActions
\* has settled, executeAction was entered for every action of the batch and
\* the batch was not given up with an exception.
C1_FailureIsolation ==
  Settled => (Len(dispatched) = Len(batch) /\ epc = "resolved")

\* C2: the actions of one executeActions call reach the document strictly in
\* input order and one at a time: executeAction is entered in increasing
\* batch position, and whenever an action's document call begins, every
\* document call of an earlier action has begun at a smaller batch position
\* and has already ended.
C2_SequentialInOrder ==
  /\ \A i \in 1..Len(dispatched) : \A j \in 1..(i - 1) : dispatched[j] < dispatched[i]
  /\ \A p \in 1..Len(portLog) : \A q \in 1..(p - 1) :
       (/\ portLog[p].ev = "call" /\ ExecutorEvent(portLog[p])
        /\ portLog[q].ev = "call" /\ ExecutorEvent(portLog[q]))
       => /\ portLog[q].by[2] < portLog[p].by[2]
          /\ \E r \in (q + 1)..(p - 1) : portLog[r].by = portLog[q].by /\ Ended(portLog[r])

\* C2 witness: a batch whose first two actions both wrote to the document
\* has run to its end.
C2_Witness ==
  /\ epc = "resolved"
  /\ \E p \in 1..Len(portLog) : \E q \in 1..Len(portLog) :
       /\ portLog[p] = [ev |-> "return", op |-> "writeToCell", by |-> ActionAt(1)]
       /\ portLog[q] = [ev |-> "return", op |-> "writeToCell", by |-> ActionAt(2)]

\* C3: of a batch of n actions, k of them made to fail at the document, the
\* executor accounts for all n: once it has settled, all n actions were
\* dispatched, exactly k document calls failed, and n - k actions went
\* through.
C3_AllOutcomes ==
  Settled =>
    /\ Len(dispatched) = Len(batch)
    /\ Cardinality({p \in 1..Len(portLog) : portLog[p].ev = "throw"}) = Cardinality(faulty)
    /\ Cardinality({p \in 1..Len(portLog) : portLog[p].ev = "return"})
         = Cardinality(WriteIndices(batch)) - Cardinality(faulty)

\* C4: an action whose kind is not in ExcelActionType is rejected: no
\* document call is made for it, and executeActions does not complete as if
\* every action had succeeded.
C4_UnknownKindRejected ==
  /\ \A p \in 1..Len(portLog) :
       ExecutorEvent(portLog[p]) => batch[portLog[p].by[2]].type \in ExcelActionType
  /\ epc = "resolved" => \A i \in 1..Len(batch) : batch[i].type \in ExcelActionType

\* the envelope the turn ended with
TurnEnvelope == messages[Len(messages)].aiResponse
SuccessIsFalse(envelope) == envelope.metadata.present /\ ~envelope.metadata.success
\* an executed action failed, or the resolver produced no action
TurnFailed == epc = "rejected" \/ localResponse.action.type = "none"

\* C5: when a user turn is done, the envelope has metadata.success = false
\* exactly when an executed action failed or the resolver produced nothing
\* actionable, and metadata.errors is filled exactly when success is false.
C5_SuccessFlag ==
  cpc = "done" =>
    /\ SuccessIsFalse(TurnEnvelope) <=> TurnFailed
    /\ TurnEnvelope.metadata.errors # <<>> <=> SuccessIsFalse(TurnEnvelope)

\* the rules of the priority list, as the text of the message decides them
CellWriteMatches(m) ==
  WriteTrigger(toLowerCase(m)) /\ MatchCell(m).ok /\ MatchValue(m).ok
RangeWriteMatches(m) ==
  RangeTrigger(toLowerCase(m)) /\ MatchRange(m).ok /\ MatchValues(m).ok
\* the rule that has to handle a message when the first match wins
FirstMatch(m) ==
  IF PivotTrigger(toLowerCase(m)) THEN "pivot"
  ELSE IF ReadTrigger(toLowerCase(m)) THEN "read"
  ELSE IF CellWriteMatches(m) THEN "write_cell"
  ELSE IF RangeWriteMatches(m) THEN "write_range"
  ELSE IF SelectionTrigger(toLowerCase(m)) THEN "selection"
  ELSE "fallback"
Fallback(branch) == IF branch \in {"pivot_manual", "default"} THEN "fallback" ELSE branch
Touched == portLog # <<>> \/ grid # grid0

\* C6: processMessage classifies by first match over pivot, read, cell-write,
\* range-write, selection, fallback: the rule that handles a message is the
\* first one in that order that matches it, so a lower rule runs only when
\* no higher rule matched; a message handled as pivot makes no document call
\* and writes nothing, whatever else it contains.
C6_FirstMatchWins ==
  /\ Classified => Fallback(handledBy) = FirstMatch(TurnText)
  /\ handledBy = "pivot" => ~Touched
  /\ handledBy \in {"pivot", "read"} =>
       \A p \in 1..Len(portLog) : portLog[p].op \notin {"writeToCell", "writeToRange"}

\* C6 witness: a message with both the pivot trigger and a complete cell
\* write was answered by the pivot rule.
C6_Witness ==
  /\ Answered
  /\ handledBy = "pivot"
  /\ CellWriteMatches(TurnText)

\* C7: a turn the resolver handles on its read path sends nothing to the
\* agent and executes nothing: executeActions is never entered, the envelope
\* of the turn has no actions, and the only document call of the turn is
\* the worksheet read.
C7_ReadPathIsLocal ==
  handledBy = "read" =>
    /\ epc = "idle" /\ cpc # "executing"
    /\ batch = <<>> /\ dispatched = <<>>
    /\ aiResponse.actions = <<>>
    /\ \A p \in 1..Len(portLog) :
         portLog[p].op = "getCurrentWorksheet" /\ portLog[p].by = Resolver
    /\ cpc = "done" => TurnEnvelope.actions = <<>> /\ Len(portLog) = 2

\* C7 witness: a read turn is done and the worksheet read returned.
C7_Witness ==
  /\ cpc = "done"
  /\ handledBy = "read"
  /\ portLog[Len(portLog)].ev = "return"

\* the values literal of a range-write command does not parse
MalformedValues(m) ==
  ~JSONparse(<<"[">> \o NormalizeQuotes(MatchValues(m).cap) \o <<"]">>).ok

\* C8: a range-write command whose values literal is malformed is answered
\* without an exception and without a write: processMessage returns a
\* response whose message carries the parser's diagnostic, writeToRange is
\* never called and the document stays as it was.
C8_MalformedRangeWrite ==
  (sent # <<>> /\ rpc # "start" /\ handledBy = "write_range" /\ MalformedValues(TurnText)) =>
    /\ rpc = "returned"
    /\ localResponse.message.text = "Error writing to range: $1"
    /\ localResponse.message.args = <<<<"Invalid values format: ", "SyntaxError">>>>
    /\ localResponse.action.type = "none"
    /\ ~Touched

\* C8 witness: a range-write command with a malformed literal was answered.
C8_Witness ==
  /\ Answered
  /\ handledBy = "write_range"
  /\ MalformedValues(TurnText)

\* the rule after the cell-write rule that takes a message
AfterCellWrite(m) ==
  IF RangeWriteMatches(m) THEN "write_range"
  ELSE IF SelectionTrigger(toLowerCase(m)) THEN "selection"
  ELSE "fallback"
WriteCellCalled == \E p \in 1..Len(portLog) : portLog[p].op = "writeToCell"

\* C9: the cell-write rule takes a message only when it has both a cell
\* address and a value token; with either one missing the rule writes
\* nothing and reports no error, and the message goes to the next rule:
\* range-write, then selection, then the fallback.
C9_CellWriteNeedsBoth ==
  /\ (sent # <<>> /\ handledBy = "write_cell") =>
       MatchCell(TurnText).ok /\ MatchValue(TurnText).ok
  /\ (Answered /\ ~(MatchCell(TurnText).ok /\ MatchValue(TurnText).ok)) =>
       /\ ~WriteCellCalled
       /\ localResponse.message.text # "Error writing to cell: $1"
  /\ (/\ Classified
      /\ WriteTrigger(TurnLower) /\ ~PivotTrigger(TurnLower) /\ ~ReadTrigger(TurnLower)
      /\ ~(MatchCell(TurnText).ok /\ MatchValue(TurnText).ok)) =>
       Fallback(handledBy) = AfterCellWrite(TurnText)

\* C9 witness: a write command with a cell address and no value token fell
\* through to the fallback.
C9_Witness ==
  /\ Answered
  /\ WriteTrigger(TurnLower)
  /\ MatchCell(TurnText).ok /\ ~MatchValue(TurnText).ok
  /\ handledBy = "default"

PivotAction == localResponse.action.data

\* C10: every message with a pivot intent gets a create-pivot-table action:
\* each of source range, destination range, row field, column field and
\* value field whose pattern does not match has its documented default
\* (A1:D10, F1, Category, Region, Sales with sum), whatever the other
\* patterns did.
C10_PivotDefaults ==
  (Answered /\ PivotTrigger(TurnLower)) =>
    /\ handledBy = "pivot"
    /\ localResponse.action.type = "CREATE_PIVOT_TABLE"
    /\ ~MatchFrom(TurnLower).ok => PivotAction.sourceRange = <<"A","1",":","D","1","0">>
    /\ ~MatchTo(TurnLower).ok => PivotAction.destinationRange = <<"F","1">>
    /\ ~MatchRows(TurnLower).ok => PivotAction.rows = <<<<"C","a","t","e","g","o","r","y">>>>
    /\ ~MatchColumns(TurnLower).ok => PivotAction.columns = <<<<"R","e","g","i","o","n">>>>
    /\ ~MatchSum(TurnLower).ok =>
         PivotAction.values = <<[field |-> <<"S","a","l","e","s">>, function |-> "sum"]>>

\* C10 witness: a pivot message that names a row field and no source range
\* was answered.
C10_Witness ==
  /\ Answered
  /\ handledBy = "pivot"
  /\ MatchRows(TurnLower).ok
  /\ ~MatchFrom(TurnLower).ok

\* a document call the resolver made has failed
ResolverCallFailed ==
  \E p \in 1..Len(portLog) : portLog[p].ev = "throw" /\ portLog[p].by = Resolver

\* C11: when a document call made by the resolver fails (worksheet read,
\* cell write, range write or selection read), processMessage still
\* completes: it has returned a response whose message carries the error
\* text and that has no action; it neither throws nor stalls.
C11_ResolverErrorsAnswered ==
  ResolverCallFailed =>
    /\ rpc = "returned"
    /\ localResponse.message.text \in
         {CatchText(op) : op \in {"getCurrentWorksheet", "writeToCell", "writeToRange",
                                  "getSelectedRange"}}
    /\ localResponse.message.args = <<hostError>>
    /\ localResponse.action.type = "none"

\* a matrix whose rows are not all of one length
Jagged(values) ==
  /\ values[1] = "arr"
  /\ \E r1 \in 1..Len(values[2]) : \E r2 \in 1..Len(values[2]) :
       Len(values[2][r1][2]) # Len(values[2][r2][2])
JaggedAt(i) == batch[i].type = "WRITE_RANGE" /\ Jagged(batch[i].data.values)

\* C12: a write-range action with a jagged values matrix is a validation
\* error: the action is not dispatched (no document call is ever made for
\* it) and no cell of the document is written for it.
C12_JaggedNotDispatched ==
  \A i \in 1..Len(batch) :
    JaggedAt(i) =>
      /\ i \notin {dispatched[k] : k \in 1..Len(dispatched)}
      /\ \A p \in 1..Len(portLog) : portLog[p].by # ActionAt(i)

\* a call of formatWorksheetOutput has returned
Formatted == fpc = "done" /\ request.kind = "format"
\* a text with its line breaks read as spaces
Unwrapped(text) == [i \in 1..Len(text) |-> IF text[i] = "\n" THEN " " ELSE text[i]]
\* <ColumnLetter><RowNumber>= of the cell in row r, column c (from 1)
EntryLabel(r, c) == getColumnLetter(c - 1) \o ToStr(r) \o <<"=">>

\* C13: the output of formatWorksheetOutput has the entry
\* <ColumnLetter><RowNumber>=<value> of every populated cell of the grid (a
\* long entry may be broken over lines at its spaces) and no entry for an
\* empty cell.
C13_PopulatedCellsListed ==
  Formatted =>
    \A r \in 1..Len(request.values) : \A c \in 1..Len(request.values[r]) :
      IF NonEmptyCell(request.values[r][c])
      THEN includes(Unwrapped(result), EntryLabel(r, c) \o CellText(request.values[r][c]))
      ELSE ~includes(result, EntryLabel(r, c))

\* C14: every line of the output of formatWorksheetOutput is at most
\* maxLineLength (40) characters long: no maxLineLength + 1 characters in a
\* row are without a line break.
C14_LinesWithinWidth ==
  Formatted =>
    \A i \in 1..(Len(result) - maxLineLength) :
      \E k \in i..(i + maxLineLength) : result[k] = "\n"

\* a call of wrapText has returned
Wrapped == fpc = "done" /\ request.kind = "wrap"
IsWord(w) == w # <<>>
\* the words of a text, in order: what stands between its spaces
WordsOf(text) == SelectSeq(split(text), IsWord)
RECURSIVE WordsOfLines(_)
WordsOfLines(lines) ==
  IF lines = <<>> THEN <<>> ELSE WordsOf(Head(lines)) \o WordsOfLines(Tail(lines))
\* the text has single spaces only, and none at its ends
SingleSpaced(text) == \A i \in 1..Len(split(text)) : IsWord(split(text)[i])

\* C15 as stated: wrapText breaks an entry longer than the width at spaces
\* only, and joining the lines it returns with single spaces gives back
\* the entry.
C15_JoinGivesBackText ==
  Wrapped => JoinWords(result) = request.text

\* C15, amended: wrapText breaks an entry longer than the width at spaces
\* only: the words of the lines it returns are the words of the entry, whole
\* and in order, and no line is empty; joining the lines with single spaces
\* gives back the entry when its words are separated by single spaces (a
\* run of spaces that falls on a line break is dropped).
C15_WholeWordsKept ==
  Wrapped =>
    /\ WordsOfLines(result) = WordsOf(request.text)
    /\ \A i \in 1..Len(result) : result[i] # <<>>
    /\ SingleSpaced(request.text) => JoinWords(result) = request.text

\* C15 witness: an entry of single-spaced words came back as several lines.
C15_Witness ==
  /\ Wrapped
  /\ SingleSpaced(request.text)
  /\ Len(result) >= 2

\* a call of getColumnLetter has returned
Lettered == fpc = "done" /\ request.kind = "letter"

\* C16: getColumnLetter is the bijective base-26 numbering: the letters it
\* returns for index are the name of column index + 1 (0 gives A, 25 gives
\* Z, 26 gives AA, 701 gives ZZ, 702 gives AAA), no other index gets the
\* same letters, and each pass of its loop makes temp smaller, so the loop
\* ends.
C16_BijectiveBase26 ==
  /\ Lettered =>
       /\ result # <<>>
       /\ \A i \in 1..Len(result) : IsUpper(result[i])
       /\ ColNumber(result) = request.index + 1
       /\ request.index = 0 => result = <<"A">>
       /\ request.index = 25 => result = <<"Z">>
       /\ request.index = 26 => result = <<"A", "A">>
       /\ request.index = 701 => result = <<"Z", "Z">>
       /\ request.index = 702 => result = <<"A", "A", "A">>
       /\ \A j \in 0..MaxIndex : j # request.index => getColumnLetter(j) # result
  /\ (fpc = "loop" /\ temp >= 0) =>
       /\ LetterStep(temp, letter).temp < temp
       /\ LetterStep(temp, letter).temp >= -1

\* C16 witness: the call for index 702 returned three letters.
C16_Witness ==
  /\ Lettered
  /\ request.index = 702
  /\ Len(result) = 3

\* the grid has a cell that is not null, undefined or the empty string
HasPopulatedCell(values) ==
  \E r \in 1..Len(values) : \E c \in 1..Len(values[r]) :
    /\ values[r][c][1] # "null"
    /\ values[r][c][1] # "undef"
    /\ values[r][c][1] = "str" => Len(values[r][c][2]) > 0

\* C17: formatWorksheetOutput returns exactly "The worksheet is empty." for
\* a grid with no rows or with only null, undefined or empty-string cells,
\* and another text, which starts with a row header, for every grid with a
\* populated cell.
C17_EmptySentinel ==
  Formatted =>
    /\ ~HasPopulatedCell(request.values) => result = worksheetIsEmpty
    /\ HasPopulatedCell(request.values) =>
         /\ result # worksheetIsEmpty
         /\ SubSeq(result, 1, 4) = <<"R", "o", "w", " ">>

\* C17 witness: a grid with rows, all of whose cells are empty, one of them
\* the empty string, was formatted.
C17_Witness ==
  /\ Formatted
  /\ Len(request.values) = 2
  /\ \E c \in 1..Len(request.values[2]) :
       request.values[2][c][1] = "str" /\ request.values[2][c][2] = <<>>
  /\ result = worksheetIsEmpty

\* C18: for the input "Write value 42 to cell A1", with the document
\* accepting the write, the resolver yields one write-cell action with
\* address "A1" and value "42", the value 42 is what is written to A1, and
\* the response message names A1 and 42.
C18_WriteValueToCell ==
  (Answered /\ sent = <<"Write value 42 to cell A1">> /\ Resolver \notin faulty) =>
    /\ handledBy = "write_cell"
    /\ localResponse.action =
         Action("WRITE_CELL", [address |-> adrA1, value |-> <<"str", <<"4", "2">>>>])
    /\ localResponse.message =
         Msg("I've written the value \"$1\" to cell $2", <<<<"4", "2">>, adrA1>>)
    /\ grid = GridWriteCell(grid0, adrA1, <<"str", <<"4", "2">>>>)

\* C19: for the input "create a pivot table from A1:D10 to F1 with rows:
\* Product, columns: Region, values: Sales" the resolver yields one
\* create-pivot-table action with sourceRange "A1:D10", destinationRange
\* "F1", rows ["Product"], columns ["Region"] and a values entry with field
\* "Sales": the fields of the message, in the casing of the message.
C19_PivotExample ==
  (/\ Answered
   /\ sent = <<"create a pivot table from A1:D10 to F1 with rows: Product, columns: Region, values: Sales">>) =>
    /\ localResponse.action.type = "CREATE_PIVOT_TABLE"
    /\ PivotAction.sourceRange = <<"A", "1", ":", "D", "1", "0">>
    /\ PivotAction.destinationRange = <<"F", "1">>
    /\ PivotAction.rows = <<<<"P", "r", "o", "d", "u", "c", "t">>>>
    /\ PivotAction.columns = <<<<"R", "e", "g", "i", "o", "n">>>>
    /\ \E v \in 1..Len(PivotAction.values) :
         PivotAction.values[v].field = <<"S", "a", "l", "e", "s">>

adrA1B3 == <<"A","1",":","B","3">>
NumRow(a, b) == <<"arr", <<<<"num", a>>, <<"num", b>>>>>>

\* messages of the form "Write range R values M", with the R and the M of each
RangeWriteForms ==
  {[sent |-> <<"Write range A1:B3 values [[1,2],[3,4],[5,6]]">>,
    address |-> adrA1B3,
    values |-> <<"arr", <<NumRow(1, 2), NumRow(3, 4), NumRow(5, 6)>>>>],
   [sent |-> <<"Write range A1:B2", "values [[1,2],[3,4]]">>,
    address |-> adrA1B2,
    values |-> <<"arr", <<NumRow(1, 2), NumRow(3, 4)>>>>],
   [sent |-> <<"Write range A1:B2", "values [['value 1',2],[3,4]]">>,
    address |-> adrA1B2,
    values |-> <<"arr", <<<<"arr", <<<<"str", <<"v","a","l","u","e"," ","1">>>>,
                                     <<"num", 2>>>>>>,
                          NumRow(3, 4)>>>>]}

\* the resolver answered with one write-range action for R and M
RangeWriteOf(f) ==
  /\ handledBy = "write_range"
  /\ localResponse.action.type = "WRITE_RANGE"
  /\ localResponse.action.data.address = f.address
  /\ localResponse.action.data.values = f.values
  /\ ~WriteCellCalled

\* the literal M holds numbers only
NumbersOnly(values) ==
  \A r \in 1..Len(values[2]) :
    \A c \in 1..Len(values[2][r][2]) : values[2][r][2][c][1] = "num"

C21_FallbackHelp ==
  (sent # <<>> /\ FirstMatch(TurnText) = "fallback") =>
    /\ portLog = <<>>
    /\ inflight = NoCall
    /\ grid = grid0
    /\ rpc \in {"start", "returned"}
    /\ rpc = "returned" => localResponse = DefaultResponse
    /\ cpc \in {"executing", "done"} =>
         \A a \in 1..Len(aiResponse.actions) : aiResponse.actions[a].type = "CREATE_CHART"
    /\ cpc = "done" =>
         messages[Len(messages)].content = DefaultResponse.message

\* C21 witness: "hello there" went through the whole turn and the help text
\* is the assistant's message.
C21_Witness ==
  /\ cpc = "done"
  /\ sent = <<"hello there">>
  /\ localResponse = DefaultResponse
  /\ messages[Len(messages)].sender = "assistant"

\* the action at idx is a write-cell action equal to the one right before it
SameWriteCellAgain ==
  /\ idx > 1
  /\ idx <= Len(batch)
  /\ batch[idx].type = "WRITE_CELL"
  /\ batch[idx - 1].type = "WRITE_CELL"
  /\ batch[idx - 1].data = batch[idx].data

\* C22: write-cell is idempotent: when the action that was just executed is
\* executed again and the document accepts the write again, the second
\* execution ends as the first did (the call returns and the loop goes on)
\* and the document after it is the document after the first.
C22_WriteCellIdempotent ==
  [][(epc = "await" /\ SameWriteCellAgain /\ ActionAt(idx) \notin faulty) =>
       /\ epc' = "loop"
       /\ idx' = idx + 1
       /\ grid' = grid
       /\ portLog' = Append(portLog, Event("return", inflight))]_vars

\* C22 witness: a batch of the same write-cell action twice was executed to
\* its end, both calls returned, and the cell holds the value.
C22_Witness ==
  /\ epc = "resolved"
  /\ Len(batch) = 2
  /\ batch[1].type = "WRITE_CELL"
  /\ batch[2] = batch[1]
  /\ Len(portLog) = 4
  /\ portLog[2].ev = "return"
  /\ portLog[4].ev = "return"
  /\ grid = GridWriteCell(grid0, batch[1].data.address, batch[1].data.value)

\* the action without its FormattingSpec
Plain(action) ==
  IF action.type = "WRITE_CELL"
  THEN Action("WRITE_CELL", [address |-> action.data.address, value |-> action.data.value])
  ELSE Action("WRITE_RANGE",
              [address |-> action.data.address, values |-> action.data.values])

\* the response the caller holds says something about formatting
LimitationSurfaced ==
  \/ aiResponse.message # Msg("backend", <<>>)
  \/ aiResponse.metadata # NoMetadata
  \/ \E m \in 1..Len(messages) : messages[m].sender = "assistant"

\* C23: a write action that carries a FormattingSpec writes what the same
\* action without it writes, the write still succeeds, the formatting is
\* acknowledged as a no-op, and the caller is told in the message body that
\* formatting is not supported.
C23_FormattingNoOp ==
  [][(epc = "await" /\ HasFormatting(batch[idx]) /\ ActionAt(idx) \notin faulty) =>
       /\ epc' = "loop"
       /\ grid' = GridAfter(grid, CallOf(Plain(batch[idx]), idx))
       /\ idx \in logged'
       /\ LimitationSurfaced']_vars

\* C24: resolving a read query has no side effect on the document: from the
\* moment processMessage takes a message on its read path to the end of the
\* turn, the only document call made is getCurrentWorksheet, no action is
\* executed, and the document is what it was before the message.
C24_ReadHasNoSideEffect ==
  (sent # <<>> /\ handledBy = "read") =>
    /\ grid = grid0
    /\ inflight.op \in {"none", "getCurrentWorksheet"}
    /\ \A p \in 1..Len(portLog) : portLog[p].op = "getCurrentWorksheet"
    /\ dispatched = <<>>

\* C24 witness: a read query that also spells a complete cell-write command
\* was answered from a document that holds a value, and the turn is over.
C24_Witness ==
  /\ cpc = "done"
  /\ handledBy = "read"
  /\ sent = <<"show", "Write value 42 to cell A1">>
  /\ grid0 # EmptyGrid
  /\ Len(portLog) = 2
  /\ portLog[2].ev = "return"
  /\ localResponse.body.kind = "worksheet"

\* the turn ended without the remote step: sendMessageToAIAgent and
\* processAIAgentResponse were not called
RemoteSkipped == cpc = "done" /\ epc = "idle"

\* C27: the chat's read short-circuit agrees with the resolver: at the end of
\* a turn the remote step was skipped if and only if processMessage handled
\* the message on its read path.
C27_ShortCircuitAgrees ==
  (cpc = "done" /\ sent # <<>>) => (RemoteSkipped <=> handledBy = "read")

\* the assistant messages of the conversation
AssistantMessages == {m \in 1..Len(messages) : messages[m].sender = "assistant"}

\* the turn is over: one assistant message, and the chat is unlocked
TurnOver ==
  /\ cpc = "done"
  /\ ~isProcessing
  /\ Cardinality(AssistantMessages) = 1

\* C29: every accepted user message eventually gets exactly one assistant
\* message and isProcessing goes back to false, whether the services
\* succeeded or failed, unless a service call never settles.
C29_EveryMessageAnswered == (cpc = "local") ~> (rpc = "hung" \/ TurnOver)

\* C29 witness: the document call of a cell-write command failed, the
\* resolver answered with the error text, the remote step ran, and the turn
\* is over with one assistant message.
C29_Witness ==
  /\ TurnOver
  /\ faulty = {Resolver}
  /\ handledBy = "write_cell"
  /\ epc = "resolved"
  /\ localResponse.message.text = "Error writing to cell: $1"

\* the cells a write action addresses
TargetCells(action) ==
  IF action.type = "WRITE_CELL" THEN {CellOf(action.data.address)}
  ELSE IF action.type = "WRITE_RANGE"
       THEN DOMAIN GridWriteRange(EmptyGrid, action.data.address, action.data.values)
  ELSE {}

\* the cells whose content is not what the initial document had
ChangedCells ==
  {c \in DOMAIN grid \cup DOMAIN grid0 :
     \/ c \notin DOMAIN grid0
     \/ c \notin DOMAIN grid
     \/ grid[c] # grid0[c]}

\* C30: in every state of the executor every document call, begun or
\* completed, was made by a write-cell or write-range action of the batch,
\* and the document differs from the initial document only in cells those
\* actions address; the other kinds, known or not, call nothing and change
\* nothing.
C30_OnlyWritesTouchDocument ==
  /\ \A e \in 1..Len(portLog) : portLog[e].by \in {ActionAt(i) : i \in WriteIndices(batch)}
  /\ inflight # NoCall => inflight.by \in {ActionAt(i) : i \in WriteIndices(batch)}
  /\ ChangedCells \subseteq UNION {TargetCells(batch[i]) : i \in WriteIndices(batch)}

\* C30 witness: a batch of a logged kind, an unknown kind and a cell write
\* has run to the end; both other kinds were dispatched, and the document
\* changed only in B2.
C30_Witness ==
  /\ epc = "resolved"
  /\ Len(batch) = 3
  /\ batch[1].type = "READ_CELL"
  /\ batch[2].type = "MERGE_CELLS"
  /\ batch[3].type = "WRITE_CELL"
  /\ dispatched = <<1, 2, 3>>
  /\ ChangedCells = {CellOf(adrB2)}
  /\ Len(portLog) = 2

\* the texts of the user messages of the conversation, in order
UserTexts ==
  [k \in 1..Cardinality({m \in 1..Len(messages) : messages[m].sender = "user"}) |->
     messages[CHOOSE m \in 1..Len(messages) :
                /\ messages[m].sender = "user"
                /\ Cardinality({j \in 1..m : messages[j].sender = "user"}) = k].content.args]

\* C25: over the turns of a conversation, with send events, typing and
\* renders in any order, at most one call of handleSendMessage is unsettled;
\* while one is, the last render has isProcessing set, so no send is
\* accepted; the request processMessage works on is the one the user sent
\* last, and every earlier user message has its assistant message.
C25_OneAtATime ==
  /\ Len(pending) <= 1
  /\ pending # <<>> <=> cpc \in {"local", "executing"}
  /\ pending # <<>> => /\ rendered /\ isProcessing
                       /\ pending = <<sent>>
                       /\ UserTexts # <<>>
                       /\ UserTexts[Len(UserTexts)] = sent
                       /\ Len(UserTexts) = Cardinality(AssistantMessages) + 1
  /\ pending = <<>> => Len(UserTexts) = Cardinality(AssistantMessages)

\* C25 witness: the second request of a conversation is in flight, after a
\* first turn that ended and was rendered.
C25_Witness ==
  /\ Len(messages) = 3
  /\ pending = <<sent>>
  /\ cpc = "executing"
  /\ rendered
  /\ messages[1].sender = "user"
  /\ messages[2].sender = "assistant"
  /\ messages[3].sender = "user"

\* C26: every value a completed writeToCell or writeToRange wrote is in the
\* service's workbook, whatever initialisations complete afterwards.
C26_WrittenValueKept ==
  \A w \in 1..Len(writeCalls) : writeCalls[w].at = "done" => w \in workbook

\* C28: once dispose() has been called no autosave timer is set,
\* autoSaveInterval is null and no autosave fires.
C28_NoTimerAfterDispose ==
  disposed => /\ autoSaveInterval = 0
              /\ timers = {}
              /\ ~autosaved

====
